---- MODULE Spec2Model ----
(***************************************************************************)
(* Model of streamlit_app.py: the client care letter generator.            *)
(*                                                                         *)
(* A string is a sequence of symbols.  A symbol is one lexeme of the       *)
(* precedent markup: a bracketed tag ("[indiv]", "[7]", "[/7]", "[bold]"), *)
(* a brace, a key name, a blank " " or a word.  Brace placeholders are     *)
(* three symbols ("{", key, "}") so that str.replace can build a token     *)
(* from the pieces that surround a replaced one.                           *)
(***************************************************************************)
EXTENDS Integers, Sequences, FiniteSets, TLC

VARIABLES
    pc,                         \* position of the script / of the check
    app_inputs,                 \* the dict built by the Generate handler
    precedent_text,             \* the precedent, as its sequence of lines
    lineIdx,                    \* preprocess_precedent: index of raw_line
    line_to_process,            \* preprocess_precedent: rest of the line
    current_paragraph_builder,  \* preprocess_precedent: open [N] block
    logical_elements,           \* preprocess_precedent: result list
    elemIdx,                    \* render loop: index of element
    in_indiv_block,             \* render loop: client block flags
    in_corp_block,
    active_track_block,         \* render loop: open track tag or None
    doc,                        \* doc.paragraphs
    call,                       \* arguments of the helper under check
    ret                         \* what the helper returned

vars == <<pc, app_inputs, precedent_text, lineIdx, line_to_process,
          current_paragraph_builder, logical_elements, elemIdx,
          in_indiv_block, in_corp_block, active_track_block, doc, call, ret>>

docvars == <<precedent_text, lineIdx, line_to_process,
             current_paragraph_builder, logical_elements, elemIdx,
             in_indiv_block, in_corp_block, active_track_block, doc>>

None == "None"

(***************************************************************************)
(* Sequence helpers (Python str / list primitives).                        *)
(***************************************************************************)
Get(m, k, d) == IF k \in DOMAIN m THEN m[k] ELSE d

Range(s) == {s[i] : i \in 1..Len(s)}

SeqsUpTo(S, n) == UNION {[1..k -> S] : k \in 0..n}

Drop(s, n) == SubSeq(s, n + 1, Len(s))

Take(s, n) == SubSeq(s, 1, n)

StartsWith(s, p) == Len(p) <= Len(s) /\ Take(s, Len(p)) = p

RECURSIVE LStrip(_)
LStrip(s) == IF s # <<>> /\ Head(s) = " " THEN LStrip(Tail(s)) ELSE s

RECURSIVE RStrip(_)
RStrip(s) == IF s # <<>> /\ s[Len(s)] = " " THEN RStrip(Take(s, Len(s) - 1)) ELSE s

Strip(s) == LStrip(RStrip(s))

(* index of the first occurrence of p in s at or after position i; 0 if none *)
RECURSIVE Find(_, _, _)
Find(s, p, i) ==
    IF i + Len(p) - 1 > Len(s) THEN 0
    ELSE IF SubSeq(s, i, i + Len(p) - 1) = p THEN i
    ELSE Find(s, p, i + 1)

(* a replace that stops after the first occurrence *)
ReplaceOnlyFirst(s, p, v) ==
    LET k == Find(s, p, 1)
    IN  IF p = <<>> \/ k = 0 THEN s ELSE Take(s, k - 1) \o v \o Drop(s, k + Len(p) - 1)

(* str.replace(p, v): every non-overlapping occurrence, left to right *)
RECURSIVE Replace(_, _, _)
Replace(s, p, v) ==
    LET k == Find(s, p, 1)
    IN  IF p = <<>> \/ k = 0 THEN s
        ELSE Take(s, k - 1) \o v \o Replace(Drop(s, k + Len(p) - 1), p, v)

(* str.replace(p, v, 1) *)
ReplaceFirst(s, p, v) ==
    LET k == Find(s, p, 1)
    IN  IF k = 0 THEN s ELSE Take(s, k - 1) \o v \o Drop(s, k + Len(p) - 1)

(***************************************************************************)
(* The conditional choice context: the radio buttons and the select box.   *)
(***************************************************************************)
client_types == {"Individual", "Corporate"}

track_options == <<"Small Claims Track", "Fast Track", "Intermediate Track", "Multi Track">>

track_tags == <<"[all_sc]", "[all_ft]", "[all_int]", "[all_mt]", "[sc]", "[ft]", "[int]", "[mt]">>

end_track_tags == <<"[end all_sc]", "[end all_ft]", "[end all_int]", "[end all_mt]",
                    "[end sc]", "[end ft]", "[end int]", "[end mt]">>

Contexts ==
    {[k \in {"client_type", "claim_assigned", "selected_track"} |->
        CASE k = "client_type" -> ct
          [] k = "claim_assigned" -> ca
          [] OTHER -> tr] :
     ct \in client_types, ca \in BOOLEAN, tr \in Range(track_options)}

(***************************************************************************)
(* should_render_paragraph_version(p_num, p_version, app_inputs)           *)
(***************************************************************************)
should_render_mutant_track(p_num, p_version, ai) ==
    IF p_version = None THEN TRUE
    ELSE IF p_num \in {"6", "18"} THEN
        \/ ai["client_type"] = "Individual" /\ p_version = "1"
        \/ ai["client_type"] = "Corporate" /\ p_version # "1"
    ELSE IF p_num = "24" THEN
        LET is_allocated == ai["claim_assigned"]
            track == ai["selected_track"]
        IN  CASE p_version = "1" -> is_allocated /\ track = "Small Claims Track"
              [] p_version = "2" -> is_allocated /\ track = "Fast Track"
              [] p_version = "3" -> is_allocated /\ track = "Intermediate Track"
              [] p_version = "4" -> is_allocated /\ track = "Multi Track"
              [] p_version = "5" -> ~is_allocated /\ track = "Small Claims Track"
              [] p_version = "6" -> ~is_allocated /\ track = "Small Claims Track"
              [] p_version = "7" -> ~is_allocated /\ track = "Intermediate Track"
              [] p_version = "8" -> ~is_allocated /\ track = "Multi Track"
              [] OTHER -> FALSE
    ELSE TRUE

should_render_mutant_client(p_num, p_version, ai) ==
    IF p_version = None THEN TRUE
    ELSE IF p_num \in {"6", "18"} THEN
        \/ ai["client_type"] = "Individual" /\ p_version = "1"
        \/ ai["client_type"] = "Corporate"
    ELSE IF p_num = "24" THEN
        LET is_allocated == ai["claim_assigned"]
            track == ai["selected_track"]
        IN  CASE p_version = "1" -> is_allocated /\ track = "Small Claims Track"
              [] p_version = "2" -> is_allocated /\ track = "Fast Track"
              [] p_version = "3" -> is_allocated /\ track = "Intermediate Track"
              [] p_version = "4" -> is_allocated /\ track = "Multi Track"
              [] p_version = "5" -> ~is_allocated /\ track = "Small Claims Track"
              [] p_version = "6" -> ~is_allocated /\ track = "Fast Track"
              [] p_version = "7" -> ~is_allocated /\ track = "Intermediate Track"
              [] p_version = "8" -> ~is_allocated /\ track = "Multi Track"
              [] OTHER -> FALSE
    ELSE TRUE

should_render_paragraph_version(p_num, p_version, ai) ==
    IF p_version = None THEN TRUE
    ELSE IF p_num = "6" THEN
        LET is_indiv_version == (p_version = "1")
        IN  \/ ai["client_type"] = "Individual" /\ is_indiv_version
            \/ ai["client_type"] = "Corporate" /\ ~is_indiv_version
    ELSE IF p_num = "18" THEN
        LET is_indiv_version == (p_version = "1")
        IN  \/ ai["client_type"] = "Individual" /\ is_indiv_version
            \/ ai["client_type"] = "Corporate" /\ ~is_indiv_version
    ELSE IF p_num = "24" THEN
        LET is_allocated == ai["claim_assigned"]
            track == ai["selected_track"]
        IN  CASE p_version = "1" -> is_allocated /\ track = "Small Claims Track"
              [] p_version = "2" -> is_allocated /\ track = "Fast Track"
              [] p_version = "3" -> is_allocated /\ track = "Intermediate Track"
              [] p_version = "4" -> is_allocated /\ track = "Multi Track"
              [] p_version = "5" -> ~is_allocated /\ track = "Small Claims Track"
              [] p_version = "6" -> ~is_allocated /\ track = "Fast Track"
              [] p_version = "7" -> ~is_allocated /\ track = "Intermediate Track"
              [] p_version = "8" -> ~is_allocated /\ track = "Multi Track"
              [] OTHER -> FALSE
    ELSE TRUE

(***************************************************************************)
(* The render loop's block filters (the same code for raw_line and for     *)
(* paragraph_block elements).                                              *)
(***************************************************************************)
(* a client filter that has lost its second line *)
ClientBlockSkipsIndivOnly(indiv, corp, ai) ==
    indiv /\ ai["client_type"] # "Individual"

(* "if in_indiv_block and client_type != Individual: continue" and its twin *)
ClientBlockSkips(indiv, corp, ai) ==
    \/ indiv /\ ai["client_type"] # "Individual"
    \/ corp /\ ai["client_type"] # "Corporate"

(* a track filter that lets the [ft] block through for an allocated claim *)
track_content_ft_allocated(tag, ai) ==
    LET is_allocated == ai["claim_assigned"]
        track_name == ai["selected_track"]
    IN  CASE tag = "[all_sc]" /\ is_allocated /\ track_name = "Small Claims Track" -> TRUE
          [] tag = "[all_ft]" /\ is_allocated /\ track_name = "Fast Track" -> TRUE
          [] tag = "[all_int]" /\ is_allocated /\ track_name = "Intermediate Track" -> TRUE
          [] tag = "[all_mt]" /\ is_allocated /\ track_name = "Multi Track" -> TRUE
          [] tag = "[sc]" /\ ~is_allocated /\ track_name = "Small Claims Track" -> TRUE
          [] tag = "[ft]" /\ is_allocated /\ track_name = "Fast Track" -> TRUE
          [] tag = "[int]" /\ ~is_allocated /\ track_name = "Intermediate Track" -> TRUE
          [] tag = "[mt]" /\ ~is_allocated /\ track_name = "Multi Track" -> TRUE
          [] OTHER -> FALSE

(* should_render_current_track_content for a non-None active_track_block *)
should_render_current_track_content(tag, ai) ==
    LET is_allocated == ai["claim_assigned"]
        track_name == ai["selected_track"]
    IN  CASE tag = "[all_sc]" /\ is_allocated /\ track_name = "Small Claims Track" -> TRUE
          [] tag = "[all_ft]" /\ is_allocated /\ track_name = "Fast Track" -> TRUE
          [] tag = "[all_int]" /\ is_allocated /\ track_name = "Intermediate Track" -> TRUE
          [] tag = "[all_mt]" /\ is_allocated /\ track_name = "Multi Track" -> TRUE
          [] tag = "[sc]" /\ ~is_allocated /\ track_name = "Small Claims Track" -> TRUE
          [] tag = "[ft]" /\ ~is_allocated /\ track_name = "Fast Track" -> TRUE
          [] tag = "[int]" /\ ~is_allocated /\ track_name = "Intermediate Track" -> TRUE
          [] tag = "[mt]" /\ ~is_allocated /\ track_name = "Multi Track" -> TRUE
          [] OTHER -> FALSE

TrackBlockSkips(active, ai) ==
    active # None /\ ~should_render_current_track_content(active, ai)

(***************************************************************************)
(* add_runs_from_text: placeholder replacement (lines 13-29).              *)
(***************************************************************************)
P_qu1 == <<"[qu 1]">>

P_qu2 == <<"[qu 2]">>

P_qu3 == <<"[qu3]">>

P_qu3_plain == <<"qu3 Explain">>

P_qu4 == <<"GBP", " ", "[qu4_]">>

Token(key) == <<"{", key, "}">>

(* the keys replaced one by one with app_inputs.get(key, ''), in code order *)
brace_keys == <<"our_ref", "your_ref", "letter_date", "client_name_input",
                "client_address_line1", "client_address_line2_conditional",
                "client_postcode", "name">>

RECURSIVE ReplaceBraceKeys(_, _, _)
ReplaceBraceKeys(text_line, ai, i) ==
    IF i > Len(brace_keys) THEN text_line
    ELSE LET replaced == Replace(text_line, Token(brace_keys[i]), Get(ai, brace_keys[i], <<>>))
         IN  \* the assignment is carried out before the next statement runs
             IF Len(replaced) >= 0 THEN ReplaceBraceKeys(replaced, ai, i + 1) ELSE replaced

(* for key, val in app_inputs.get('firm_details', {}).items() *)
RECURSIVE ReplaceFirmDetails(_, _, _)
ReplaceFirmDetails(text_line, items, i) ==
    IF i > Len(items) THEN text_line
    ELSE LET replaced == Replace(text_line, Token(items[i][1]), items[i][2])
         IN  IF Len(replaced) >= 0 THEN ReplaceFirmDetails(replaced, items, i + 1) ELSE replaced

SubstitutePlaceholders(text_line, ai) ==
    LET t1 == Replace(text_line, P_qu1, Get(ai, "qu1_dispute_nature", <<>>))
        t2 == Replace(t1, P_qu2, Get(ai, "qu2_initial_steps", <<>>))
        t3 == Replace(t2, P_qu3, Get(ai, "qu3_timescales", <<>>))
        t4 == Replace(t3, P_qu3_plain, Get(ai, "qu3_timescales", <<>>))
        t5 == Replace(t4, P_qu4,
                      <<"GBP">> \o Get(ai, "qu4_initial_costs_estimate", <<"XX,XXX">>))
        t6 == ReplaceBraceKeys(t5, ai, 1)
    IN  ReplaceFirmDetails(t6, Get(ai, "firm_details", <<>>), 1)

(***************************************************************************)
(* add_runs_from_text: inline formatting (lines 31-50).                    *)
(***************************************************************************)
FormatDelims == {"[bold]", "[end bold]", "[italics]", "[end italics]",
                 "[underline]", "[end underline]", "[end]"}

(* re.split with the capturing group: literal stretches and delimiters *)
RECURSIVE SplitParts(_, _)
SplitParts(text_line, lit) ==
    IF text_line = <<>> THEN <<lit>>
    ELSE IF Head(text_line) \in FormatDelims
         THEN <<lit, <<Head(text_line)>>>> \o SplitParts(Tail(text_line), <<>>)
         ELSE SplitParts(Tail(text_line), Append(lit, Head(text_line)))

NoToggles == [runs |-> <<>>, is_bold |-> FALSE, is_italic |-> FALSE, is_underline |-> FALSE]

(* a scan whose "[end]" turns every toggle off *)
ScanPartEndClearsAll(st, part) ==
    IF part = <<>> THEN st
    ELSE IF part = <<"[end]">>
         THEN [st EXCEPT !.is_bold = FALSE, !.is_italic = FALSE, !.is_underline = FALSE]
    ELSE IF part = <<"[bold]">> THEN [st EXCEPT !.is_bold = TRUE]
    ELSE IF part = <<"[end bold]">> THEN [st EXCEPT !.is_bold = FALSE]
    ELSE IF part = <<"[italics]">> THEN [st EXCEPT !.is_italic = TRUE]
    ELSE IF part = <<"[end italics]">> THEN [st EXCEPT !.is_italic = FALSE]
    ELSE IF part = <<"[underline]">> THEN [st EXCEPT !.is_underline = TRUE]
    ELSE IF part = <<"[end underline]">> THEN [st EXCEPT !.is_underline = FALSE]
    ELSE [st EXCEPT !.runs = Append(@, [text |-> part, bold |-> st.is_bold,
                                        italic |-> st.is_italic,
                                        underline |-> st.is_underline])]

(* one iteration of "for part in parts" *)
ScanPart(st, part) ==
    IF part = <<>> THEN st
    ELSE IF part = <<"[bold]">> THEN [st EXCEPT !.is_bold = TRUE]
    ELSE IF part = <<"[end bold]">> \/ (part = <<"[end]">> /\ st.is_bold)
         THEN [st EXCEPT !.is_bold = FALSE]
    ELSE IF part = <<"[italics]">> THEN [st EXCEPT !.is_italic = TRUE]
    ELSE IF part = <<"[end italics]">> \/ (part = <<"[end]">> /\ st.is_italic)
         THEN [st EXCEPT !.is_italic = FALSE]
    ELSE IF part = <<"[underline]">> THEN [st EXCEPT !.is_underline = TRUE]
    ELSE IF part = <<"[end underline]">> \/ (part = <<"[end]">> /\ st.is_underline)
         THEN [st EXCEPT !.is_underline = FALSE]
    ELSE IF part = <<"[end]">>
         THEN [st EXCEPT !.is_bold = FALSE, !.is_italic = FALSE, !.is_underline = FALSE]
    ELSE [st EXCEPT !.runs = Append(@, [text |-> part, bold |-> st.is_bold,
                                        italic |-> st.is_italic,
                                        underline |-> st.is_underline])]

RECURSIVE ScanParts(_, _, _)
ScanParts(st, parts, i) ==
    IF i > Len(parts) THEN st ELSE ScanParts(ScanPart(st, parts[i]), parts, i + 1)

(* the locals of one call when its loop ends: text_line as replaced, the
   toggles, and the runs it added *)
ScanLine(text_line, ai) ==
    LET replaced == SubstitutePlaceholders(text_line, ai)
        st == ScanParts(NoToggles, SplitParts(replaced, <<>>), 1)
    IN  [text_line |-> replaced, runs |-> st.runs, is_bold |-> st.is_bold,
         is_italic |-> st.is_italic, is_underline |-> st.is_underline]

add_runs_from_text(paragraph, text_line, ai) ==
    [paragraph EXCEPT !.runs = @ \o ScanLine(text_line, ai).runs]

(* the text of a paragraph: its runs, concatenated *)
RECURSIVE RunsText(_)
RunsText(runs) == IF runs = <<>> THEN <<>> ELSE Head(runs).text \o RunsText(Tail(runs))

NewParagraph ==
    [style |-> "Normal", left_indent |-> None, space_after |-> 0, runs |-> <<>>]

(***************************************************************************)
(* preprocess_precedent                                                    *)
(***************************************************************************)
(* para_tag_regex \[(\d+)((?:-(\d+))?)\] on the tag symbols: <<group 1, group 3>> *)
para_tag_regex ==
    [sym \in {"[1]", "[2]", "[3]", "[4]", "[5]", "[6]", "[7]", "[8]", "[9]", "[10]",
              "[11]", "[12]", "[13]", "[14]", "[15]", "[16]", "[17]", "[18]", "[19]",
              "[20]", "[21]", "[22]", "[23]", "[24]", "[25]", "[26]", "[27]", "[28]",
              "[29]", "[30]", "[31]", "[32]", "[33]", "[34]", "[35]", "[36]", "[37]",
              "[38]", "[39]", "[40]", "[41]", "[42]", "[43]", "[6-1]", "[6-2]",
              "[6-3]", "[10-2]", "[18-1]", "[18-2]", "[24-1]", "[24-2]", "[24-3]",
              "[24-4]", "[24-5]", "[24-6]", "[24-7]", "[24-8]", "[24-9]"} |->
        CASE sym = "[1]" -> <<"1", None>>
          [] sym = "[2]" -> <<"2", None>>
          [] sym = "[3]" -> <<"3", None>>
          [] sym = "[4]" -> <<"4", None>>
          [] sym = "[5]" -> <<"5", None>>
          [] sym = "[6]" -> <<"6", None>>
          [] sym = "[7]" -> <<"7", None>>
          [] sym = "[8]" -> <<"8", None>>
          [] sym = "[9]" -> <<"9", None>>
          [] sym = "[10]" -> <<"10", None>>
          [] sym = "[11]" -> <<"11", None>>
          [] sym = "[12]" -> <<"12", None>>
          [] sym = "[13]" -> <<"13", None>>
          [] sym = "[14]" -> <<"14", None>>
          [] sym = "[15]" -> <<"15", None>>
          [] sym = "[16]" -> <<"16", None>>
          [] sym = "[17]" -> <<"17", None>>
          [] sym = "[18]" -> <<"18", None>>
          [] sym = "[19]" -> <<"19", None>>
          [] sym = "[20]" -> <<"20", None>>
          [] sym = "[21]" -> <<"21", None>>
          [] sym = "[22]" -> <<"22", None>>
          [] sym = "[23]" -> <<"23", None>>
          [] sym = "[24]" -> <<"24", None>>
          [] sym = "[25]" -> <<"25", None>>
          [] sym = "[26]" -> <<"26", None>>
          [] sym = "[27]" -> <<"27", None>>
          [] sym = "[28]" -> <<"28", None>>
          [] sym = "[29]" -> <<"29", None>>
          [] sym = "[30]" -> <<"30", None>>
          [] sym = "[31]" -> <<"31", None>>
          [] sym = "[32]" -> <<"32", None>>
          [] sym = "[33]" -> <<"33", None>>
          [] sym = "[34]" -> <<"34", None>>
          [] sym = "[35]" -> <<"35", None>>
          [] sym = "[36]" -> <<"36", None>>
          [] sym = "[37]" -> <<"37", None>>
          [] sym = "[38]" -> <<"38", None>>
          [] sym = "[39]" -> <<"39", None>>
          [] sym = "[40]" -> <<"40", None>>
          [] sym = "[41]" -> <<"41", None>>
          [] sym = "[42]" -> <<"42", None>>
          [] sym = "[43]" -> <<"43", None>>
          [] sym = "[6-1]" -> <<"6", "1">>
          [] sym = "[6-2]" -> <<"6", "2">>
          [] sym = "[6-3]" -> <<"6", "3">>
          [] sym = "[10-2]" -> <<"10", "2">>
          [] sym = "[18-1]" -> <<"18", "1">>
          [] sym = "[18-2]" -> <<"18", "2">>
          [] sym = "[24-1]" -> <<"24", "1">>
          [] sym = "[24-2]" -> <<"24", "2">>
          [] sym = "[24-3]" -> <<"24", "3">>
          [] sym = "[24-4]" -> <<"24", "4">>
          [] sym = "[24-5]" -> <<"24", "5">>
          [] sym = "[24-6]" -> <<"24", "6">>
          [] sym = "[24-7]" -> <<"24", "7">>
          [] sym = "[24-8]" -> <<"24", "8">>
          [] OTHER -> <<"24", "9">>]

(* para_end_tag_regex \[/(\d+)((?:-(\d+))?)\] *)
para_end_tag_regex ==
    [sym \in {"[/1]", "[/2]", "[/3]", "[/4]", "[/5]", "[/6]", "[/7]", "[/8]", "[/9]",
              "[/10]", "[/11]", "[/12]", "[/13]", "[/14]", "[/15]", "[/16]", "[/17]",
              "[/18]", "[/19]", "[/20]", "[/21]", "[/22]", "[/23]", "[/24]", "[/25]",
              "[/26]", "[/27]", "[/28]", "[/29]", "[/30]", "[/31]", "[/32]", "[/33]",
              "[/34]", "[/35]", "[/36]", "[/37]", "[/38]", "[/39]", "[/40]", "[/41]",
              "[/42]", "[/43]", "[/6-1]", "[/6-2]", "[/6-3]", "[/10-2]", "[/18-1]",
              "[/18-2]", "[/24-1]", "[/24-2]", "[/24-3]", "[/24-4]", "[/24-5]",
              "[/24-6]", "[/24-7]", "[/24-8]", "[/24-9]"} |->
        CASE sym = "[/1]" -> <<"1", None>>
          [] sym = "[/2]" -> <<"2", None>>
          [] sym = "[/3]" -> <<"3", None>>
          [] sym = "[/4]" -> <<"4", None>>
          [] sym = "[/5]" -> <<"5", None>>
          [] sym = "[/6]" -> <<"6", None>>
          [] sym = "[/7]" -> <<"7", None>>
          [] sym = "[/8]" -> <<"8", None>>
          [] sym = "[/9]" -> <<"9", None>>
          [] sym = "[/10]" -> <<"10", None>>
          [] sym = "[/11]" -> <<"11", None>>
          [] sym = "[/12]" -> <<"12", None>>
          [] sym = "[/13]" -> <<"13", None>>
          [] sym = "[/14]" -> <<"14", None>>
          [] sym = "[/15]" -> <<"15", None>>
          [] sym = "[/16]" -> <<"16", None>>
          [] sym = "[/17]" -> <<"17", None>>
          [] sym = "[/18]" -> <<"18", None>>
          [] sym = "[/19]" -> <<"19", None>>
          [] sym = "[/20]" -> <<"20", None>>
          [] sym = "[/21]" -> <<"21", None>>
          [] sym = "[/22]" -> <<"22", None>>
          [] sym = "[/23]" -> <<"23", None>>
          [] sym = "[/24]" -> <<"24", None>>
          [] sym = "[/25]" -> <<"25", None>>
          [] sym = "[/26]" -> <<"26", None>>
          [] sym = "[/27]" -> <<"27", None>>
          [] sym = "[/28]" -> <<"28", None>>
          [] sym = "[/29]" -> <<"29", None>>
          [] sym = "[/30]" -> <<"30", None>>
          [] sym = "[/31]" -> <<"31", None>>
          [] sym = "[/32]" -> <<"32", None>>
          [] sym = "[/33]" -> <<"33", None>>
          [] sym = "[/34]" -> <<"34", None>>
          [] sym = "[/35]" -> <<"35", None>>
          [] sym = "[/36]" -> <<"36", None>>
          [] sym = "[/37]" -> <<"37", None>>
          [] sym = "[/38]" -> <<"38", None>>
          [] sym = "[/39]" -> <<"39", None>>
          [] sym = "[/40]" -> <<"40", None>>
          [] sym = "[/41]" -> <<"41", None>>
          [] sym = "[/42]" -> <<"42", None>>
          [] sym = "[/43]" -> <<"43", None>>
          [] sym = "[/6-1]" -> <<"6", "1">>
          [] sym = "[/6-2]" -> <<"6", "2">>
          [] sym = "[/6-3]" -> <<"6", "3">>
          [] sym = "[/10-2]" -> <<"10", "2">>
          [] sym = "[/18-1]" -> <<"18", "1">>
          [] sym = "[/18-2]" -> <<"18", "2">>
          [] sym = "[/24-1]" -> <<"24", "1">>
          [] sym = "[/24-2]" -> <<"24", "2">>
          [] sym = "[/24-3]" -> <<"24", "3">>
          [] sym = "[/24-4]" -> <<"24", "4">>
          [] sym = "[/24-5]" -> <<"24", "5">>
          [] sym = "[/24-6]" -> <<"24", "6">>
          [] sym = "[/24-7]" -> <<"24", "7">>
          [] sym = "[/24-8]" -> <<"24", "8">>
          [] OTHER -> <<"24", "9">>]

(* regex.search: position of the first symbol the pattern matches; 0 if none *)
RECURSIVE Search(_, _, _)
Search(regex, line, i) ==
    IF i > Len(line) THEN 0
    ELSE IF line[i] \in DOMAIN regex THEN i
    ELSE Search(regex, line, i + 1)

NL == "<nl>"

(* "\n".join(lines) *)
RECURSIVE JoinLines(_)
JoinLines(lines) ==
    IF lines = <<>> THEN <<>>
    ELSE IF Len(lines) = 1 THEN lines[1]
    ELSE lines[1] \o <<NL>> \o JoinLines(Tail(lines))

(* content.split('\n') *)
RECURSIVE SplitLines(_, _)
SplitLines(content, cur) ==
    IF content = <<>> THEN <<cur>>
    ELSE IF Head(content) = NL THEN <<cur>> \o SplitLines(Tail(content), <<>>)
    ELSE SplitLines(Tail(content), Append(cur, Head(content)))

RawLine(content) == [type |-> "raw_line", content |-> content]

ParagraphBlock(b) ==
    [type |-> "paragraph_block",
     paragraph_display_number_text |-> <<b.num, ".">>,
     content |-> JoinLines(b.lines)]

(* for raw_line in precedent_text.splitlines(): line_to_process = raw_line *)
NextLine ==
    /\ pc = "parse"
    /\ line_to_process = <<>>
    /\ lineIdx < Len(precedent_text)
    /\ lineIdx' = lineIdx + 1
    /\ line_to_process' = precedent_text[lineIdx + 1]
    /\ UNCHANGED <<pc, app_inputs, precedent_text, current_paragraph_builder,
                   logical_elements, elemIdx, in_indiv_block, in_corp_block,
                   active_track_block, doc, call, ret>>

(* an end tag that closes any open block, whatever its number *)
ClosesAnyBlock(b, line, m_end) == m_end # 0

(* lines 94-95: the end tag found is the one of the open block b *)
ClosesBlock(b, line, m_end) ==
    /\ m_end # 0
    /\ para_end_tag_regex[line[m_end]][1] = b.num
    /\ para_end_tag_regex[line[m_end]][2] = b.version

(* line_to_process[m.start():]: a slice that keeps the tag found *)
FromMatch(line, m) == Drop(line, m - 1)

(* line_to_process[m.end():], for the match m of a tag (lines 108 and 125) *)
AfterMatch(line, m) == Drop(line, m)

(* the body of "while line_to_process", on the locals of preprocess_precedent *)
WhileBody(st, ai) ==
    LET line == st.line_to_process
        m_start == Search(para_tag_regex, line, 1)
        m_end == Search(para_end_tag_regex, line, 1)
        b == st.current_paragraph_builder[1]
        closes == ClosesBlock(b, line, m_end)
    IN  IF st.current_paragraph_builder # <<>> THEN
            IF closes THEN
                LET content_before_end_tag == Take(line, m_end - 1)
                    done == IF content_before_end_tag # <<>>
                            THEN [b EXCEPT !.lines = Append(@, content_before_end_tag)]
                            ELSE b
                IN  [logical_elements |->
                         IF done.is_selected_for_render
                         THEN Append(st.logical_elements, ParagraphBlock(done))
                         ELSE st.logical_elements,
                     current_paragraph_builder |-> <<>>,
                     line_to_process |-> AfterMatch(line, m_end)]
            ELSE
                [logical_elements |-> st.logical_elements,
                 current_paragraph_builder |-> <<[b EXCEPT !.lines = Append(@, line)]>>,
                 line_to_process |-> <<>>]
        ELSE IF m_start # 0 THEN
            LET content_before_tag == Take(line, m_start - 1)
                p_num == para_tag_regex[line[m_start]][1]
                p_version == para_tag_regex[line[m_start]][2]
            IN  [logical_elements |->
                     IF content_before_tag # <<>>
                     THEN Append(st.logical_elements, RawLine(content_before_tag))
                     ELSE st.logical_elements,
                 current_paragraph_builder |->
                     <<[num |-> p_num, version |-> p_version, lines |-> <<>>,
                        is_selected_for_render |->
                            should_render_paragraph_version(p_num, p_version, ai)]>>,
                 line_to_process |-> AfterMatch(line, m_start)]
        ELSE
            [logical_elements |-> Append(st.logical_elements, RawLine(line)),
             current_paragraph_builder |-> st.current_paragraph_builder,
             line_to_process |-> <<>>]

(* lines 139-149: what the unterminated block adds to the result *)
AfterLoop(st) ==
    IF /\ st.current_paragraph_builder # <<>>
       /\ st.current_paragraph_builder[1].is_selected_for_render
       /\ st.current_paragraph_builder[1].lines # <<>>
    THEN Append(st.logical_elements, ParagraphBlock(st.current_paragraph_builder[1]))
    ELSE st.logical_elements

ParserLocals ==
    [logical_elements |-> logical_elements,
     current_paragraph_builder |-> current_paragraph_builder,
     line_to_process |-> line_to_process]

(* one iteration of "while line_to_process" *)
WhileStep ==
    /\ pc = "parse"
    /\ line_to_process # <<>>
    /\ LET st == WhileBody(ParserLocals, app_inputs)
       IN  /\ logical_elements' = st.logical_elements
           /\ current_paragraph_builder' = st.current_paragraph_builder
           /\ line_to_process' = st.line_to_process
    /\ UNCHANGED <<pc, app_inputs, precedent_text, lineIdx, elemIdx, in_indiv_block,
                   in_corp_block, active_track_block, doc, call, ret>>

(* after the loop: the unterminated block (lines 139-149) and the return *)
ParseEnd ==
    /\ pc = "parse"
    /\ line_to_process = <<>>
    /\ lineIdx = Len(precedent_text)
    /\ logical_elements' = AfterLoop(ParserLocals)
    /\ pc' = "render"
    /\ UNCHANGED <<app_inputs, precedent_text, lineIdx, line_to_process,
                   current_paragraph_builder, elemIdx, in_indiv_block, in_corp_block,
                   active_track_block, doc, call, ret>>

(* the whole function, for a precedent given as its lines *)
RECURSIVE WhileLoop(_, _)
WhileLoop(st, ai) ==
    IF st.line_to_process = <<>> THEN st ELSE WhileLoop(WhileBody(st, ai), ai)

RECURSIVE ForRawLines(_, _, _, _)
ForRawLines(st, lines, i, ai) ==
    IF i > Len(lines) THEN st
    ELSE LET next == WhileLoop([st EXCEPT !.line_to_process = lines[i]], ai)
         IN  IF Len(next.logical_elements) >= 0 /\ Len(next.current_paragraph_builder) >= 0
             THEN ForRawLines(next, lines, i + 1, ai)
             ELSE next

preprocess_precedent(lines, ai) ==
    AfterLoop(ForRawLines([logical_elements |-> <<>>,
                           current_paragraph_builder |-> <<>>,
                           line_to_process |-> <<>>], lines, 1, ai))

(***************************************************************************)
(* The render loop of the Generate handler (lines 468-599).                *)
(***************************************************************************)
IndexOf(seq, x) == IF \E i \in 1..Len(seq) : seq[i] = x
                   THEN CHOOSE i \in 1..Len(seq) : seq[i] = x ELSE 0

(* f"[end {active_track_block[1:-1]}]" *)
EndTagOf(tag) == end_track_tags[IndexOf(track_tags, tag)]

(* doc.paragraphs[-1].paragraph_format.space_after = Pt(n), if doc.paragraphs *)
SetLastSpaceAfter(d, n) ==
    IF d = <<>> THEN d ELSE [d EXCEPT ![Len(d)].space_after = n]

(* the [FEE_TABLE_PLACEHOLDER] branch *)
RECURSIVE AddFeeLines(_, _, _, _)
AddFeeLines(d, fee_lines_content, i, ai) ==
    IF i > Len(fee_lines_content) THEN d
    ELSE AddFeeLines(
             Append(d, add_runs_from_text([NewParagraph EXCEPT !.space_after = 6],
                                          fee_lines_content[i], ai)),
             fee_lines_content, i + 1, ai)

letter_tags == <<"[a]", "[b]", "[c]", "[d]", "[e]", "[f]", "[g]">>

letter_prefixes == <<"(a)", "(b)", "(c)", "(d)", "(e)", "(f)", "(g)">>

(* the body of "for line_for_docx_processing_raw in lines_to_render_for_docx" *)
RenderLine(d, line_for_docx_processing_raw, is_from_numbered_block, ai) ==
    LET line_for_docx_processing == Strip(line_for_docx_processing_raw)
        first == IF line_for_docx_processing = <<>> THEN None
                 ELSE Head(line_for_docx_processing)
        k == IndexOf(letter_tags, first)
        current_paragraph_style_name == IF first = "[bp]" THEN "ListBullet" ELSE "Normal"
        left_indent_value == IF first = "[ind]" THEN "4cm" ELSE None
        space_after_val_pt == IF first = "[bp]" THEN 6 ELSE 0
        text_content_for_runs ==
            IF first = "[bp]"
            THEN LStrip(ReplaceFirst(line_for_docx_processing, <<"[bp]">>, <<>>))
            ELSE IF k # 0
            THEN <<letter_prefixes[k], " ">>
                 \o LStrip(ReplaceFirst(line_for_docx_processing, <<letter_tags[k]>>, <<>>))
            ELSE IF first = "[ind]"
            THEN LStrip(ReplaceFirst(line_for_docx_processing, <<"[ind]">>, <<>>))
            ELSE line_for_docx_processing
    IN  IF Strip(line_for_docx_processing_raw) = <<"[]">> THEN SetLastSpaceAfter(d, 12)
        ELSE IF line_for_docx_processing = <<>> /\ ~is_from_numbered_block
             THEN SetLastSpaceAfter(d, 12)
        ELSE IF line_for_docx_processing = <<>> /\ is_from_numbered_block
             THEN SetLastSpaceAfter(d, 12)
        ELSE IF line_for_docx_processing = <<"[FEE_TABLE_PLACEHOLDER]">>
             THEN SetLastSpaceAfter(
                      AddFeeLines(d, SplitLines(Get(ai, "fee_table_content", <<>>), <<>>), 1, ai),
                      0)
        ELSE IF text_content_for_runs = <<>>
                /\ ~(current_paragraph_style_name = "ListBullet" /\ text_content_for_runs = <<>>)
             THEN d
        ELSE Append(d, add_runs_from_text(
                           [NewParagraph EXCEPT !.style = current_paragraph_style_name,
                                                !.left_indent = left_indent_value,
                                                !.space_after = space_after_val_pt],
                           text_content_for_runs, ai))

RECURSIVE RenderLines(_, _, _, _, _)
RenderLines(d, lines_to_render_for_docx, i, is_from_numbered_block, ai) ==
    IF i > Len(lines_to_render_for_docx) THEN d
    ELSE RenderLines(RenderLine(d, lines_to_render_for_docx[i], is_from_numbered_block, ai),
                     lines_to_render_for_docx, i + 1, is_from_numbered_block, ai)

(* a numbering that puts the number in front of every non-blank line *)
RECURSIVE NumberEveryLine(_, _, _, _)
NumberEveryLine(block_internal_lines, para_num_display_str, i, has_added_number_to_block) ==
    IF i > Len(block_internal_lines) THEN <<>>
    ELSE LET internal_line_raw == block_internal_lines[i]
         IN  <<IF Strip(internal_line_raw) # <<>>
               THEN para_num_display_str \o <<" ">> \o LStrip(internal_line_raw)
               ELSE internal_line_raw>>
             \o NumberEveryLine(block_internal_lines, para_num_display_str, i + 1,
                                has_added_number_to_block)

(* lines 529-537: the number goes in front of the first non-blank line *)
RECURSIVE NumberBlockLines(_, _, _, _)
NumberBlockLines(block_internal_lines, para_num_display_str, i, has_added_number_to_block) ==
    IF i > Len(block_internal_lines) THEN <<>>
    ELSE LET internal_line_raw == block_internal_lines[i]
             adds == ~has_added_number_to_block /\ Strip(internal_line_raw) # <<>>
         IN  <<IF adds
               THEN para_num_display_str \o <<" ">> \o LStrip(internal_line_raw)
               ELSE internal_line_raw>>
             \o NumberBlockLines(block_internal_lines, para_num_display_str, i + 1,
                                 has_added_number_to_block \/ adds)

BlockTagLines ==
    {"[indiv]", "[end indiv]", "[corp]", "[end corp]"}
        \cup Range(track_tags) \cup Range(end_track_tags)

(* the body of "for element in logical_document_elements", on the block
   flags and the document *)
RenderBody(st, element, ai) ==
    LET stripped_content == Strip(element.content)
        tag == IF Len(stripped_content) = 1 THEN stripped_content[1] ELSE None
        skipped == \/ ClientBlockSkips(st.in_indiv_block, st.in_corp_block, ai)
                   \/ TrackBlockSkips(st.active_track_block, ai)
    IN  IF element.type = "raw_line" /\ tag \in BlockTagLines THEN
            [in_indiv_block |-> IF tag = "[indiv]" THEN TRUE
                                ELSE IF tag = "[end indiv]" THEN FALSE
                                ELSE st.in_indiv_block,
             in_corp_block |-> IF tag = "[corp]" THEN TRUE
                               ELSE IF tag = "[end corp]" THEN FALSE
                               ELSE st.in_corp_block,
             active_track_block |->
                 IF tag \in Range(track_tags) THEN tag
                 ELSE IF /\ tag \in Range(end_track_tags)
                         /\ st.active_track_block # None
                         /\ tag = EndTagOf(st.active_track_block)
                      THEN None
                 ELSE st.active_track_block,
             doc |-> st.doc]
        ELSE
            [in_indiv_block |-> st.in_indiv_block,
             in_corp_block |-> st.in_corp_block,
             active_track_block |-> st.active_track_block,
             doc |-> IF skipped THEN st.doc
                     ELSE IF element.type = "raw_line"
                     THEN RenderLines(st.doc, <<element.content>>, 1, FALSE, ai)
                     ELSE RenderLines(
                              st.doc,
                              NumberBlockLines(SplitLines(element.content, <<>>),
                                               element.paragraph_display_number_text,
                                               1, FALSE),
                              1, TRUE, ai)]

(* lines 597-599: the last paragraph gets 6pt after it if it had none *)
FinalSpacing(d) ==
    IF d # <<>> /\ d[Len(d)].space_after = 0 THEN SetLastSpaceAfter(d, 6) ELSE d

RenderLocals ==
    [in_indiv_block |-> in_indiv_block, in_corp_block |-> in_corp_block,
     active_track_block |-> active_track_block, doc |-> doc]

(* one iteration of "for element in logical_document_elements" *)
RenderElement ==
    /\ pc = "render"
    /\ elemIdx < Len(logical_elements)
    /\ elemIdx' = elemIdx + 1
    /\ LET st == RenderBody(RenderLocals, logical_elements[elemIdx + 1], app_inputs)
       IN  /\ in_indiv_block' = st.in_indiv_block
           /\ in_corp_block' = st.in_corp_block
           /\ active_track_block' = st.active_track_block
           /\ doc' = st.doc
    /\ UNCHANGED <<pc, app_inputs, precedent_text, lineIdx, line_to_process,
                   current_paragraph_builder, logical_elements, call, ret>>

(* lines 597-599, then the document is saved and offered for download *)
RenderEnd ==
    /\ pc = "render"
    /\ elemIdx = Len(logical_elements)
    /\ doc' = FinalSpacing(doc)
    /\ pc' = "done"
    /\ UNCHANGED <<app_inputs, precedent_text, lineIdx, line_to_process,
                   current_paragraph_builder, logical_elements, elemIdx,
                   in_indiv_block, in_corp_block, active_track_block, call, ret>>

(* the whole loop over the elements, then the final spacing *)
RECURSIVE ForElements(_, _, _, _)
ForElements(st, elements, i, ai) ==
    IF i > Len(elements) THEN st
    ELSE LET next == RenderBody(st, elements[i], ai)
         IN  IF Len(next.doc) >= 0 THEN ForElements(next, elements, i + 1, ai) ELSE next

(* lines 456-599: the paragraphs of the document made from a precedent *)
GeneratedDocument(lines, ai) ==
    FinalSpacing(ForElements([in_indiv_block |-> FALSE, in_corp_block |-> FALSE,
                              active_track_block |-> None, doc |-> <<>>],
                             preprocess_precedent(lines, ai), 1, ai).doc)

(***************************************************************************)
(* The Generate handler builds app_inputs from the widgets (lines 436-454) *)
(***************************************************************************)
firm_details ==
    <<<<"name", <<"Ramsdens Solicitors LLP">>>>,
      <<"short_name", <<"Ramsdens">>>>,
      <<"person_responsible_name", <<"Paul Pinder">>>>,
      <<"person_responsible_title", <<"Senior Associate">>>>,
      <<"supervisor_name", <<"Nick Armitage">>>>,
      <<"supervisor_title", <<"Partner">>>>,
      <<"person_responsible_phone", <<"01484 821558">>>>,
      <<"person_responsible_mobile", <<"07923 250815">>>>,
      <<"person_responsible_email", <<"paul.pinder@ramsdens.co.uk">>>>,
      <<"assistant_name", <<"Reece Collier">>>>,
      <<"supervisor_contact_for_complaints", <<"Nick Armitage on 01484 507121">>>>,
      <<"bank_name", <<"Barclays Bank PLC">>>>,
      <<"bank_address", <<"17 Market Place, Huddersfield">>>>,
      <<"account_name", <<"Ramsdens Solicitors LLP Client Account">>>>,
      <<"sort_code", <<"20-43-12">>>>,
      <<"account_number", <<"03909026">>>>,
      <<"marketing_email", <<"dataprotection@ramsdens.co.uk">>>>,
      <<"marketing_address", <<"Ramsdens Solicitors LLP, Oakley House">>>>>>

MonthNames == <<"January", "February", "March", "April", "May", "June", "July",
                "August", "September", "October", "November", "December">>

(* letter_date.strftime('%d %B %Y') *)
Strftime(date) == <<date.day, " ", MonthNames[date.month], " ", date.year>>

(* the widgets' default values (lines 177-206) *)
DefaultWidgets ==
    [our_ref |-> <<"PP/LEGAL/RAM001/001">>,
     your_ref |-> <<>>,
     letter_date |-> [day |-> "02", month |-> 11, year |-> "2026"],
     client_name_input |-> <<"Mr.", " ", "John", " ", "Smith">>,
     client_address_line1 |-> <<"123 Example Street">>,
     client_address_line2 |-> <<"SomeTown">>,
     client_postcode |-> <<"EX4 MPL">>,
     qu1_dispute_nature |-> <<"a contractual matter">>,
     qu2_initial_steps |-> <<"review the documentation">>,
     qu3_timescales |-> <<"We estimate 2-4 weeks.">>,
     qu4_initial_costs_estimate |-> <<"1,500">>,
     fee_table_content |-> <<"Partner: GBP XXX per hour", NL,
                             "Senior Associate: GBP YYY per hour">>]

AppInputKeys ==
    {"qu1_dispute_nature", "qu2_initial_steps", "qu3_timescales",
     "qu4_initial_costs_estimate", "fee_table_content", "client_type",
     "claim_assigned", "selected_track", "our_ref", "your_ref", "letter_date",
     "client_name_input", "client_address_line1", "client_address_line2_conditional",
     "client_postcode", "name", "firm_details"}

BuildAppInputs(client_type, claim_assigned_input, selected_track, w) ==
    [k \in AppInputKeys |->
        CASE k = "client_type" -> client_type
          [] k = "claim_assigned" -> (claim_assigned_input = "Yes")
          [] k = "selected_track" -> selected_track
          [] k = "letter_date" -> Strftime(w.letter_date)
          [] k = "client_address_line2_conditional" ->
                 IF w.client_address_line2 # <<>> THEN w.client_address_line2 ELSE <<>>
          [] k = "name" -> firm_details[3][2]
          [] k = "firm_details" -> firm_details
          [] OTHER -> w[k]]

(***************************************************************************)
(* Bounds and the precedents the letter is generated from.                 *)
(***************************************************************************)
MaxLines == 4

Words == <<"w1", "w2", "w3", "w4", "w5", "w6">>

(* line i of a precedent: the template with its word made unique to line i *)
LineAt(template, i) ==
    [j \in 1..Len(template) |-> IF template[j] = "w" THEN Words[i] ELSE template[j]]

PrecedentOf(templates) == [i \in 1..Len(templates) |-> LineAt(templates[i], i)]

InitGenerate(Templates, ClientTypes, AssignedInputs, Tracks) ==
    /\ pc = "parse"
    /\ \E ct \in ClientTypes, ca \in AssignedInputs, tr \in Tracks :
           app_inputs = BuildAppInputs(ct, ca, tr, DefaultWidgets)
    /\ \E ts \in SeqsUpTo(Templates, MaxLines) : precedent_text = PrecedentOf(ts)
    /\ lineIdx = 0
    /\ line_to_process = <<>>
    /\ current_paragraph_builder = <<>>
    /\ logical_elements = <<>>
    /\ elemIdx = 0
    /\ in_indiv_block = FALSE
    /\ in_corp_block = FALSE
    /\ active_track_block = None
    /\ doc = <<>>
    /\ call = <<>>
    /\ ret = <<>>

NextGenerate == NextLine \/ WhileStep \/ ParseEnd \/ RenderElement \/ RenderEnd

(* precedents with client-type blocks around and inside numbered paragraphs *)
ClientTemplates ==
    {<<"w">>, <<"[indiv]">>, <<"[end indiv]">>, <<"[corp]">>, <<"[end corp]">>,
     <<"[7]", "w">>, <<"w", "[/7]">>, <<"[2]", "w", "[/2]">>, <<"[1]", "w", "[/1]">>,
     <<"[]">>}

Init == InitGenerate(ClientTemplates, client_types, {"Yes"}, {"Fast Track"})

Spec == Init /\ [][NextGenerate]_vars

(* precedents with track blocks *)
TrackTemplates ==
    {<<"w">>, <<"[all_ft]">>, <<"[end all_ft]">>, <<"[ft]">>, <<"[end ft]">>,
     <<"[all_ft]", "[24-2]", "w", "[/24-2]", "[end all_ft]">>,
     <<"[ft]", "[24-6]", "w", "[/24-6]", "[end ft]">>,
     <<"[7]", "w">>, <<"w", "[/7]">>}

InitTrack == InitGenerate(TrackTemplates, {"Individual"}, {"Yes", "No"},
                          {"Fast Track", "Small Claims Track"})

SpecTrack == InitTrack /\ [][NextGenerate]_vars

(***************************************************************************)
(* Reading the result.                                                     *)
(***************************************************************************)
ParagraphText(p) == RunsText(p.runs)

(* some paragraph of the document contains the word *)
WordRendered(w) == \E n \in 1..Len(doc) : w \in Range(ParagraphText(doc[n]))

(* line i is a line whose stripped text is exactly the tag *)
IsTagLine(i, tag) == Strip(precedent_text[i]) = <<tag>>

(* line i lies after a start-tag line and before that block's end-tag line *)
InsideBlock(i, start, end) ==
    \E j \in 1..(i - 1), k \in (i + 1)..Len(precedent_text) :
        /\ IsTagLine(j, start)
        /\ IsTagLine(k, end)
        /\ \A m \in (j + 1)..(k - 1) : ~IsTagLine(m, end)

HasWord(i) == Words[i] \in Range(precedent_text[i])

(* C1: with client_type Corporate nothing between [indiv] and [end indiv] is
   rendered, and with Individual nothing between [corp] and [end corp] *)
C1_OtherClientBlockOmitted ==
    pc = "done" =>
        \A i \in 1..Len(precedent_text) :
            /\ (/\ app_inputs["client_type"] = "Corporate"
                /\ HasWord(i)
                /\ InsideBlock(i, "[indiv]", "[end indiv]")) => ~WordRendered(Words[i])
            /\ (/\ app_inputs["client_type"] = "Individual"
                /\ HasWord(i)
                /\ InsideBlock(i, "[corp]", "[end corp]")) => ~WordRendered(Words[i])

(* the (assignment state, track name) pair a track tag stands for *)
TagAssigned(tag) == tag \in {"[all_sc]", "[all_ft]", "[all_int]", "[all_mt]"}

TagTrack(tag) ==
    CASE tag \in {"[all_sc]", "[sc]"} -> "Small Claims Track"
      [] tag \in {"[all_ft]", "[ft]"} -> "Fast Track"
      [] tag \in {"[all_int]", "[int]"} -> "Intermediate Track"
      [] OTHER -> "Multi Track"

TagMatchesContext(tag, ai) ==
    TagAssigned(tag) = ai["claim_assigned"] /\ TagTrack(tag) = ai["selected_track"]

(* line i lies in the block a start-tag line opens, and no other track tag
   stands between that block's start and end *)
InsideTrackBlock(i, tag) ==
    \E j \in 1..(i - 1), k \in (i + 1)..Len(precedent_text) :
        /\ IsTagLine(j, tag)
        /\ IsTagLine(k, EndTagOf(tag))
        /\ \A m \in (j + 1)..(k - 1) :
               Range(precedent_text[m]) \cap (Range(track_tags) \cup Range(end_track_tags)) = {}

Line_24_2 == <<"[all_ft]", "[24-2]", "w", "[/24-2]", "[end all_ft]">>

Line_24_6 == <<"[ft]", "[24-6]", "w", "[/24-6]", "[end ft]">>

(* C2: a track block's content is rendered iff the block's assignment state and
   track are the context's; with claim assigned and Fast Track the [all_ft] /
   [24-2] paragraph is rendered and the [ft] / [24-6] paragraph is not *)
C2_TrackBlockRenderedIffMatch ==
    pc = "done" =>
        \A i \in 1..Len(precedent_text) :
            /\ \A tag \in {"[all_ft]", "[ft]"} :
                   (HasWord(i) /\ InsideTrackBlock(i, tag)) =>
                       (WordRendered(Words[i]) <=> TagMatchesContext(tag, app_inputs))
            /\ precedent_text[i] = LineAt(Line_24_2, i) =>
                   (WordRendered(Words[i]) <=> TagMatchesContext("[all_ft]", app_inputs))
            /\ precedent_text[i] = LineAt(Line_24_6, i) =>
                   (WordRendered(Words[i]) <=> TagMatchesContext("[ft]", app_inputs))

(* the number a rendered paragraph shows: its text starts "N. "; 0 if none *)
ParagraphNumbers ==
    <<"1", "2", "3", "4", "5", "6", "7", "8", "9", "10", "11", "12", "13",
      "14", "15", "16", "17", "18", "19", "20", "21", "22", "23", "24",
      "25", "26", "27", "28", "29", "30", "31", "32", "33", "34", "35",
      "36", "37", "38", "39", "40", "41", "42", "43">>

NumberValue == [n \in Range(ParagraphNumbers) |-> IndexOf(ParagraphNumbers, n)]

ShownNumber(p) ==
    LET t == ParagraphText(p)
    IN  IF Len(t) >= 2 /\ t[1] \in DOMAIN NumberValue /\ t[2] = "." THEN NumberValue[t[1]]
        ELSE 0

RECURSIVE ShownNumbers(_)
ShownNumbers(d) ==
    IF d = <<>> THEN <<>>
    ELSE (IF ShownNumber(Head(d)) # 0 THEN <<ShownNumber(Head(d))>> ELSE <<>>)
         \o ShownNumbers(Tail(d))

(* C10: the numbers on the rendered numbered paragraphs are 1, 2, 3, ... in
   this order, whatever lies between them and whatever was omitted *)
C10_NumbersRunFromOne ==
    pc = "done" =>
        LET shown == ShownNumbers(doc)
        IN  \A n \in 1..Len(shown) : shown[n] = n

(***************************************************************************)
(* The helpers on their own: every context, tag, text and map in bounds.   *)
(***************************************************************************)
IdleGenerate ==
    /\ precedent_text = <<>>
    /\ lineIdx = 0
    /\ line_to_process = <<>>
    /\ current_paragraph_builder = <<>>
    /\ logical_elements = <<>>
    /\ elemIdx = 0
    /\ in_indiv_block = FALSE
    /\ in_corp_block = FALSE
    /\ active_track_block = None
    /\ doc = <<>>

EvalNums == {"6", "10", "18", "24"}

EvalVersions == {None, "1", "2", "3", "4", "5", "6", "7", "8", "9"}

InitEval ==
    /\ pc = "eval"
    /\ \E ct \in client_types, ca \in {"Yes", "No"}, tr \in Range(track_options) :
           app_inputs = BuildAppInputs(ct, ca, tr, DefaultWidgets)
    /\ IdleGenerate
    /\ call = <<>>
    /\ ret = <<>>

(* the parser asks whether a [N-V] paragraph is selected *)
CallShouldRender ==
    /\ pc = "eval"
    /\ \E p_num \in EvalNums, p_version \in EvalVersions :
           /\ call' = [fn |-> "should_render_paragraph_version",
                       p_num |-> p_num, p_version |-> p_version]
           /\ ret' = should_render_paragraph_version(p_num, p_version, app_inputs)
    /\ UNCHANGED <<pc, app_inputs>>
    /\ UNCHANGED docvars

(* the render loop asks whether content under the open blocks is rendered *)
CallBlockFilter ==
    /\ pc = "eval"
    /\ \E indiv \in BOOLEAN, corp \in BOOLEAN, active \in {None} \cup Range(track_tags) :
           /\ call' = [fn |-> "block_filter", in_indiv_block |-> indiv,
                       in_corp_block |-> corp, active_track_block |-> active]
           /\ ret' = ~(\/ ClientBlockSkips(indiv, corp, app_inputs)
                       \/ TrackBlockSkips(active, app_inputs))
    /\ UNCHANGED <<pc, app_inputs>>
    /\ UNCHANGED docvars

NextEval == CallShouldRender \/ CallBlockFilter

SpecEval == InitEval /\ [][NextEval]_vars

TrackVersions == {"1", "2", "3", "4", "5", "6", "7", "8"}

(* C3: in every context exactly one of the versions 24-1..24-8 is selected and
   exactly one of the eight track block tags lets its content through *)
C3_ExactlyOneTrackTag ==
    /\ Cardinality({v \in TrackVersions :
                       should_render_paragraph_version("24", v, app_inputs)}) = 1
    /\ Cardinality({t \in Range(track_tags) : ~TrackBlockSkips(t, app_inputs)}) = 1

C3_Witness ==
    /\ call # <<>>
    /\ call.fn = "should_render_paragraph_version"
    /\ call.p_num = "24"
    /\ call.p_version = "6"
    /\ ret = TRUE

(* C4: for either client type exactly one of the indiv / corp alternatives is
   rendered: versions 1 and 2 of paragraphs 6 and 18, and the two block tags *)
C4_ExactlyOneClientAlternative ==
    /\ \A p_num \in {"6", "18"} :
           should_render_paragraph_version(p_num, "1", app_inputs)
               # should_render_paragraph_version(p_num, "2", app_inputs)
    /\ ClientBlockSkips(TRUE, FALSE, app_inputs) # ClientBlockSkips(FALSE, TRUE, app_inputs)

C4_Witness ==
    /\ call # <<>>
    /\ call.fn = "should_render_paragraph_version"
    /\ call.p_num = "18"
    /\ call.p_version = "2"
    /\ app_inputs["client_type"] = "Corporate"
    /\ ret = TRUE

KnownVersion(p_num, p_version) ==
    \/ p_num \in {"6", "18"} /\ p_version \in {"1", "2"}
    \/ p_num = "24" /\ p_version \in TrackVersions

(* C5: a versioned tag that is not a known one is never selected *)
C5_UnknownTagNotRendered ==
    (/\ call # <<>>
     /\ call.fn = "should_render_paragraph_version"
     /\ call.p_version # None
     /\ ~KnownVersion(call.p_num, call.p_version)) => ret = FALSE

MaxTextLen == 6

SubstSymbols == {"{", "}", "our_ref", "your_ref"}

Absent == <<"<absent>">>

OurRefValues == {<<"v">>, Token("your_ref")}

YourRefValues == {Absent, <<>>}

(* a placeholder map with the two reference keys, your_ref possibly missing *)
SubstMap(o, y) ==
    [k \in {"client_type", "our_ref"} \cup (IF y = Absent THEN {} ELSE {"your_ref"}) |->
        CASE k = "client_type" -> "Individual"
          [] k = "our_ref" -> o
          [] OTHER -> y]

InitRuns(Symbols, MaxLen, OurRefs, YourRefs) ==
    /\ pc = "call"
    /\ \E o \in OurRefs, y \in YourRefs : app_inputs = SubstMap(o, y)
    /\ IdleGenerate
    /\ \E t \in SeqsUpTo(Symbols, MaxLen) :
           call = [fn |-> "add_runs_from_text", text_line |-> t, first |-> t]
    /\ ret = <<>>

RunsResult(text_line, ai) ==
    LET locals == ScanLine(text_line, ai)
    IN  [paragraph |-> add_runs_from_text(NewParagraph, text_line, ai),
         text_line |-> locals.text_line,
         is_bold |-> locals.is_bold,
         is_italic |-> locals.is_italic,
         is_underline |-> locals.is_underline]

(* add_runs_from_text(p, text_line, app_inputs) on a new paragraph *)
CallAddRuns ==
    /\ pc = "call"
    /\ ret' = RunsResult(call.text_line, app_inputs)
    /\ pc' = "returned"
    /\ UNCHANGED <<app_inputs, call>>
    /\ UNCHANGED docvars

(* the same call on the text the first call produced *)
CallAddRunsAgain ==
    /\ pc = "returned"
    /\ call' = [call EXCEPT !.text_line = ret.text_line]
    /\ ret' = RunsResult(ret.text_line, app_inputs)
    /\ pc' = "again"
    /\ UNCHANGED app_inputs
    /\ UNCHANGED docvars

NextRuns == CallAddRuns \/ CallAddRunsAgain

SpecSubst == InitRuns(SubstSymbols, MaxTextLen, OurRefValues, YourRefValues) /\ [][NextRuns]_vars

Contains(s, p) == Find(s, p, 1) # 0

(* every brace of the text belongs to a complete token {key} *)
WellFormedBraces(t) ==
    \A i \in 1..Len(t) :
        /\ t[i] = "{" => (i + 2 <= Len(t) /\ t[i + 1] \notin {"{", "}"} /\ t[i + 2] = "}")
        /\ t[i] = "}" => (i >= 3 /\ t[i - 1] \notin {"{", "}"} /\ t[i - 2] = "{")

MapKeys == DOMAIN app_inputs \cap Range(brace_keys)

(* C6: the token of a key the map does not hold is still in the output *)
C6_AbsentKeyLeftVerbatim ==
    pc = "returned" =>
        \A key \in Range(brace_keys) \ DOMAIN app_inputs :
            (WellFormedBraces(call.text_line) /\ Contains(call.text_line, Token(key)))
                => Contains(ParagraphText(ret.paragraph), Token(key))

(* C7: a token that comes in with another key's value stays in the output *)
C7_ValueNotRescanned ==
    pc = "returned" =>
        \A k1 \in MapKeys, k2 \in MapKeys :
            (/\ k1 # k2
             /\ WellFormedBraces(call.text_line)
             /\ Contains(call.text_line, Token(k1))
             /\ Contains(app_inputs[k1], Token(k2)))
                => Contains(ParagraphText(ret.paragraph), Token(k2))

(* no value of the map contains the token of a key of the map *)
ValuesHoldNoToken ==
    \A k1 \in MapKeys, k2 \in MapKeys : ~Contains(app_inputs[k1], Token(k2))

(* C8 as stated: with token-free values a second substitution changes nothing *)
C8_IdempotentForTokenFreeValues ==
    (pc = "again" /\ ValuesHoldNoToken) => ret.text_line = call.text_line

(* the symbols the question patterns of lines 13-17 are made of *)
QuestionSymbols == Range(P_qu1) \cup Range(P_qu2) \cup Range(P_qu3)
                       \cup Range(P_qu3_plain) \cup (Range(P_qu4) \ {" "})

ValuesHoldNoBrace ==
    \A k \in MapKeys : Range(app_inputs[k]) \cap ({"{", "}"} \cup QuestionSymbols) = {}

(* C8 amended: with values free of braces and of question-pattern text, and a
   text free of question-pattern text whose braces all belong to complete
   tokens (none nested in or split around another), a second substitution
   changes nothing *)
C8_IdempotentForWellFormedText ==
    (/\ pc = "again"
     /\ ValuesHoldNoBrace
     /\ WellFormedBraces(call.first)
     /\ Range(call.first) \cap QuestionSymbols = {})
        => ret.text_line = call.text_line

C8_Witness ==
    /\ pc = "again"
    /\ ValuesHoldNoBrace
    /\ WellFormedBraces(call.first)
    /\ Range(call.first) \cap QuestionSymbols = {}
    /\ Contains(call.first, Token("our_ref"))
    /\ Len(call.first) > Len(Token("our_ref"))
    /\ call.text_line # call.first
    /\ ret.text_line = call.text_line

(* texts of formatting delimiters and two words *)
TokSymbols == {"[bold]", "[end bold]", "[italics]", "[end italics]", "[end]",
               "Hello", " World"}

MaxTokLen == 4

SpecTok == InitRuns(TokSymbols, MaxTokLen, {<<"v">>}, {<<>>}) /\ [][NextRuns]_vars

Opener == [d \in {"[end bold]", "[end italics]", "[end underline]"} |->
              CASE d = "[end bold]" -> "[bold]"
                [] d = "[end italics]" -> "[italics]"
                [] OTHER -> "[underline]"]

(* the delimiters pair up: a closing delimiter closes the span opened last,
   "[end]" whatever it is, and no span is open at the end *)
RECURSIVE Balanced(_, _)
Balanced(t, open) ==
    IF t = <<>> THEN open = <<>>
    ELSE IF Head(t) \in {"[bold]", "[italics]", "[underline]"}
         THEN Balanced(Tail(t), <<Head(t)>> \o open)
    ELSE IF Head(t) \in DOMAIN Opener
         THEN open # <<>> /\ Head(open) = Opener[Head(t)] /\ Balanced(Tail(t), Tail(open))
    ELSE IF Head(t) = "[end]"
         THEN open # <<>> /\ Balanced(Tail(t), Tail(open))
    ELSE Balanced(Tail(t), open)

(* C9: after a text with balanced delimiters no toggle is on, and
   "[bold]Hello[end bold] World" gives the runs (Hello, bold), ( World, plain) *)
C9_BalancedLeavesTogglesOff ==
    pc = "returned" =>
        /\ Balanced(call.text_line, <<>>)
               => (~ret.is_bold /\ ~ret.is_italic /\ ~ret.is_underline)
        /\ call.text_line = <<"[bold]", "Hello", "[end bold]", " World">>
               => ret.paragraph.runs =
                      <<[text |-> <<"Hello">>, bold |-> TRUE, italic |-> FALSE,
                         underline |-> FALSE],
                        [text |-> <<" World">>, bold |-> FALSE, italic |-> FALSE,
                         underline |-> FALSE]>>

(***************************************************************************)
(* Precedents with sub-items, fee table and blank markers.                 *)
(***************************************************************************)
(* the Generate handler started on a precedent of at most MaxLen lines, with
   the fee table text area holding one of FeeContents *)
InitGenerateWith(Templates, MaxLen, ClientTypes, AssignedInputs, Tracks, FeeContents) ==
    /\ pc = "parse"
    /\ \E ct \in ClientTypes, ca \in AssignedInputs, tr \in Tracks, fee \in FeeContents :
           app_inputs = BuildAppInputs(ct, ca, tr,
                                       [DefaultWidgets EXCEPT !.fee_table_content = fee])
    /\ \E ts \in SeqsUpTo(Templates, MaxLen) : precedent_text = PrecedentOf(ts)
    /\ lineIdx = 0
    /\ line_to_process = <<>>
    /\ current_paragraph_builder = <<>>
    /\ logical_elements = <<>>
    /\ elemIdx = 0
    /\ in_indiv_block = FALSE
    /\ in_corp_block = FALSE
    /\ active_track_block = None
    /\ doc = <<>>
    /\ call = <<>>
    /\ ret = <<>>

FeeContents == {<<"Partner: GBP X", NL, "Associate: GBP Y">>, <<"Partner: GBP X">>}

ItemTemplates ==
    {<<"w">>, <<"[7]">>, <<"[7]", "w">>, <<"[/7]">>, <<"[a]", "w">>, <<"[bp]", "w">>,
     <<"[FEE_TABLE_PLACEHOLDER]">>, <<"[]">>}

InitItems == InitGenerateWith(ItemTemplates, MaxLines, {"Individual"}, {"Yes"},
                              {"Fast Track"}, FeeContents)

SpecItems == InitItems /\ [][NextGenerate]_vars

(* fee_table_content.split('\n') *)
FeeLines == SplitLines(app_inputs["fee_table_content"], <<>>)

IsFeePlaceholderLine(i) == Strip(precedent_text[i]) = <<"[FEE_TABLE_PLACEHOLDER]">>

RECURSIVE Repeat(_, _)
Repeat(s, n) == IF n = 0 THEN <<>> ELSE s \o Repeat(s, n - 1)

(* the paragraphs that show a fee line, in document order *)
FeeParagraphs ==
    LET ShowsFeeLine(p) == \E k \in 1..Len(FeeLines) : ParagraphText(p) = FeeLines[k]
    IN  SelectSeq(doc, ShowsFeeLine)

(* C11: every fee-table placeholder line gives one paragraph per fee line, in
   the order supplied, each a plain paragraph holding the fee line only *)
C11_FeeTableOneParagraphPerLine ==
    pc = "done" =>
        LET n == Cardinality({i \in 1..Len(precedent_text) : IsFeePlaceholderLine(i)})
            shown == FeeParagraphs
        IN  /\ [k \in 1..Len(shown) |-> ParagraphText(shown[k])] = Repeat(FeeLines, n)
            /\ \A k \in 1..Len(shown) :
                   shown[k].style = "Normal" /\ shown[k].left_indent = None

(***************************************************************************)
(* Precedents whose last numbered block is left open.                      *)
(***************************************************************************)
OpenBlockTemplates ==
    {<<"w">>, <<"[7]">>, <<"[7]", "w">>, <<"w", "[/7]">>, <<"[6-2]", "w">>, <<"[]">>}

InitOpenBlock == InitGenerateWith(OpenBlockTemplates, MaxLines, client_types, {"Yes"},
                                  {"Fast Track"}, {DefaultWidgets.fee_table_content})

SpecOpenBlock == InitOpenBlock /\ [][NextGenerate]_vars

(* the end tag that closes the block b: "[/N]" or "[/N-V]" *)
EndTagFor(b) ==
    CHOOSE sym \in DOMAIN para_end_tag_regex : para_end_tag_regex[sym] = <<b.num, b.version>>

(* the input with the tag written after its last character *)
ClosedAtEnd(lines, tag) == [lines EXCEPT ![Len(lines)] = Append(@, tag)]

(* the input with the tag as one more line *)
ClosedOnNewLine(lines, tag) == Append(lines, <<tag>>)

(* the parser has returned and left a block open *)
EndsInOpenBlock == pc = "render" /\ current_paragraph_builder # <<>>

(* C12: when the input ends inside a numbered block the elements are those of
   the same input with the block's end tag put at its end *)
C12_UnterminatedAsIfClosed ==
    EndsInOpenBlock =>
        LET tag == EndTagFor(current_paragraph_builder[1])
        IN  /\ logical_elements =
                   preprocess_precedent(ClosedAtEnd(precedent_text, tag), app_inputs)
            /\ logical_elements =
                   preprocess_precedent(ClosedOnNewLine(precedent_text, tag), app_inputs)

(***************************************************************************)
(* Precedents with bracketed text that is no tag of the markup.            *)
(***************************************************************************)
UnknownTemplates ==
    {<<"w">>, <<"w", "[h]", "w">>, <<"w", "[/bold]", "w">>, <<"w", "[/7]", "w">>,
     <<"[7]", "w">>, <<"[2]", "w">>, <<"[bp]", "[h]", "w">>}

InitUnknown == InitGenerateWith(UnknownTemplates, MaxLines, {"Individual"}, {"Yes"},
                                {"Fast Track"}, {DefaultWidgets.fee_table_content})

SpecUnknown == InitUnknown /\ [][NextGenerate]_vars

(* the block the parser has open when it comes to line i: <<>> or <<block>> *)
OpenBlockBefore(i) ==
    ForRawLines([logical_elements |-> <<>>, current_paragraph_builder |-> <<>>,
                 line_to_process |-> <<>>],
                Take(precedent_text, i - 1), 1, app_inputs).current_paragraph_builder

(* line i holds bracketed text that is no tag where it stands: "[h]",
   "[/bold]", or "[/7]" while block 7 is not open *)
HoldsUnknownTag(i) ==
    \/ Range(precedent_text[i]) \cap {"[h]", "[/bold]"} # {}
    \/ /\ "[/7]" \in Range(precedent_text[i])
       /\ \/ OpenBlockBefore(i) = <<>>
          \/ OpenBlockBefore(i)[1].num # "7"

(* the line as written, less a leading bullet marker *)
LiteralPart(line) == IF line # <<>> /\ Head(line) = "[bp]" THEN Tail(line) ELSE line

ShownVerbatim(i) ==
    \E n \in 1..Len(doc) : Contains(ParagraphText(doc[n]), LiteralPart(precedent_text[i]))

(* C13: bracketed text that is no tag is printed as written, together with
   the text before and after it on its line *)
C13_UnknownTagKeptLiteral ==
    pc = "done" =>
        \A i \in 1..Len(precedent_text) : HoldsUnknownTag(i) => ShownVerbatim(i)

C13_Witness ==
    /\ pc = "done"
    /\ \E i \in 2..Len(precedent_text) :
           /\ "[/7]" \in Range(precedent_text[i])
           /\ OpenBlockBefore(i) # <<>>
           /\ OpenBlockBefore(i)[1].num = "2"
           /\ ShownVerbatim(i)
    /\ \E i \in 1..Len(precedent_text) :
           "[h]" \in Range(precedent_text[i]) /\ ShownVerbatim(i)

(***************************************************************************)
(* The script from the widgets on: the button and what the user typed.     *)
(***************************************************************************)
MaxRequestLines == 3

RequestTemplates == {<<"w">>, <<"[1]", "w", "[/1]">>, <<"w", "{", "our_ref", "}">>}

OurRefInputs == {DefaultWidgets.our_ref, <<>>}

ClientNameInputs == {DefaultWidgets.client_name_input, <<>>}

(* the page is shown and the button has not been pressed *)
InitRequest ==
    /\ pc = "idle"
    /\ app_inputs = <<>>
    /\ \E ts \in SeqsUpTo(RequestTemplates, MaxRequestLines) :
           precedent_text = PrecedentOf(ts)
    /\ lineIdx = 0
    /\ line_to_process = <<>>
    /\ current_paragraph_builder = <<>>
    /\ logical_elements = <<>>
    /\ elemIdx = 0
    /\ in_indiv_block = FALSE
    /\ in_corp_block = FALSE
    /\ active_track_block = None
    /\ doc = <<>>
    /\ call = <<>>
    /\ ret = <<>>

(* if st.button("Generate Client Care Letter"): app_inputs = {...}; doc = Document() *)
Generate ==
    /\ pc = "idle"
    /\ \E our_ref \in OurRefInputs, client_name_input \in ClientNameInputs,
          client_type \in client_types :
           app_inputs' = BuildAppInputs(client_type, "Yes", "Fast Track",
                             [DefaultWidgets EXCEPT !.our_ref = our_ref,
                                                    !.client_name_input = client_name_input])
    /\ pc' = "parse"
    /\ UNCHANGED <<precedent_text, lineIdx, line_to_process, current_paragraph_builder,
                   logical_elements, elemIdx, in_indiv_block, in_corp_block,
                   active_track_block, doc, call, ret>>

NextRequest == Generate \/ NextLine \/ WhileStep \/ ParseEnd \/ RenderElement \/ RenderEnd

SpecRequest == InitRequest /\ [][NextRequest]_vars

(* the document has been saved and the download button is shown *)
DownloadOffered == pc = "done"

MissingRequiredInput ==
    app_inputs["our_ref"] = <<>> \/ app_inputs["client_name_input"] = <<>>

(* C14: with an empty reference or an empty client name no document is built
   and none is offered for download *)
C14_MissingInputRejected ==
    (pc # "idle" /\ MissingRequiredInput) => (~DownloadOffered /\ doc = <<>>)

(***************************************************************************)
(* Block tag lines.                                                        *)
(***************************************************************************)
IsBlockTagLine(i) == \E tag \in BlockTagLines : IsTagLine(i, tag)

(* the flag a start / end tag pair leaves: set iff the last line that holds
   one of the two is the start tag *)
FlagAfterTagLines(start, end) ==
    LET at == {i \in 1..Len(precedent_text) : IsTagLine(i, start) \/ IsTagLine(i, end)}
    IN  at # {} /\ IsTagLine(CHOOSE i \in at : \A j \in at : j <= i, start)

(* C15: a line that is exactly a block tag is in no paragraph block's text and
   in no paragraph of the document, and it sets or clears its flag *)
C15_TagLineOnlyUpdatesState ==
    pc = "done" =>
        /\ \A i \in 1..Len(precedent_text) :
               IsBlockTagLine(i) =>
                   /\ \A n \in 1..Len(doc) :
                          precedent_text[i][1] \notin Range(ParagraphText(doc[n]))
                   /\ \A n \in 1..Len(logical_elements) :
                          logical_elements[n].type = "paragraph_block" =>
                              precedent_text[i][1] \notin Range(logical_elements[n].content)
        /\ in_indiv_block = FlagAfterTagLines("[indiv]", "[end indiv]")
        /\ in_corp_block = FlagAfterTagLines("[corp]", "[end corp]")

(***************************************************************************)
(* Block tags written on a line with content.                              *)
(***************************************************************************)
InlineTemplates ==
    {<<"w">>, <<"[indiv]", "w">>, <<"w", "[end indiv]">>, <<"[indiv]">>, <<"[end indiv]">>,
     <<"[2]", "w", "[/2]">>}

InitInline == InitGenerateWith(InlineTemplates, MaxLines, client_types, {"Yes"},
                               {"Fast Track"}, {DefaultWidgets.fee_table_content})

SpecInline == InitInline /\ [][NextGenerate]_vars

(* line i opens the individual block in front of its own content *)
OpensIndivInline(i) ==
    Len(precedent_text[i]) > 1 /\ Head(precedent_text[i]) = "[indiv]"

(* C16: a block tag in front of or behind a line's content is taken off the
   line, and the block it opens governs that line's content *)
C16_InlineTagStrippedAndApplied ==
    pc = "done" =>
        /\ \A n \in 1..Len(doc) :
               Range(ParagraphText(doc[n])) \cap {"[indiv]", "[end indiv]"} = {}
        /\ \A i \in 1..Len(precedent_text) :
               (OpensIndivInline(i) /\ app_inputs["client_type"] = "Corporate")
                   => ~WordRendered(Words[i])

(***************************************************************************)
(* Sub-items of a numbered paragraph.                                      *)
(***************************************************************************)
SubItemMarkers == Range(letter_tags) \cup {"[bp]", "[ind]", "[FEE_TABLE_PLACEHOLDER]", "[]"}

(* the paragraph shows a top-level number in front of a sub-item marker *)
NumberBeforeMarker(p) ==
    LET t == ParagraphText(p)
    IN  Len(t) >= 4 /\ t[2] = "." /\ t[3] = " " /\ t[4] \in SubItemMarkers

(* C17: a lettered item, bullet, fee placeholder or blank marker in a numbered
   block is never given the block's number: a lettered line is printed as
   "(a) text", a bullet line as a bullet paragraph *)
C17_SubItemsNotNumbered ==
    pc = "done" =>
        /\ \A n \in 1..Len(doc) : ~NumberBeforeMarker(doc[n])
        /\ \A i \in 1..Len(precedent_text) :
               /\ precedent_text[i] = <<"[a]", Words[i]>> =>
                      \E n \in 1..Len(doc) : ParagraphText(doc[n]) = <<"(a)", " ", Words[i]>>
               /\ precedent_text[i] = <<"[bp]", Words[i]>> =>
                      \E n \in 1..Len(doc) :
                          /\ ParagraphText(doc[n]) = <<Words[i]>>
                          /\ doc[n].style = "ListBullet"

(***************************************************************************)
(* The block state of the render loop.                                     *)
(***************************************************************************)
(* C18: never both client blocks active, and the track state is None or one
   of the eight track tags *)
C18_AtMostOneBlockPerFamily ==
    /\ ~(in_indiv_block /\ in_corp_block)
    /\ active_track_block \in {None} \cup Range(track_tags)

(***************************************************************************)
(* Client blocks and track blocks together.                                *)
(***************************************************************************)
MaxFlagLines == 3

FlagTemplates ==
    {<<"w">>, <<"[indiv]">>, <<"[end indiv]">>, <<"[corp]">>, <<"[ft]">>, <<"[end ft]">>,
     <<"[2]", "w", "[/2]">>}

InitFlags == InitGenerateWith(FlagTemplates, MaxFlagLines, client_types, {"Yes", "No"},
                              {"Fast Track"}, {DefaultWidgets.fee_table_content})

SpecFlags == InitFlags /\ [][NextGenerate]_vars

(* the element the render loop takes next is content that holds the word w *)
NextElementHolds(w) ==
    /\ pc = "render"
    /\ elemIdx < Len(logical_elements)
    /\ w \in Range(logical_elements[elemIdx + 1].content)

ClientFlagsMatch ==
    /\ in_indiv_block => app_inputs["client_type"] = "Individual"
    /\ in_corp_block => app_inputs["client_type"] = "Corporate"

(* C19: one family's tag leaves the other family's state alone, and content
   met while a client block and a track block are both active is put into the
   document iff the client block and the track block both match the context *)
C19_ClientAndTrackIndependent ==
    [][/\ (in_indiv_block' # in_indiv_block \/ in_corp_block' # in_corp_block)
              => active_track_block' = active_track_block
       /\ active_track_block' # active_track_block
              => (in_indiv_block' = in_indiv_block /\ in_corp_block' = in_corp_block)
       /\ \A i \in 1..Len(precedent_text) :
              (/\ NextElementHolds(Words[i])
               /\ elemIdx' = elemIdx + 1
               /\ in_indiv_block \/ in_corp_block
               /\ active_track_block # None)
                  => ((\E n \in 1..Len(doc') : Words[i] \in Range(ParagraphText(doc'[n])))
                          <=> (ClientFlagsMatch
                                   /\ TagMatchesContext(active_track_block, app_inputs)))]_vars

(* content was rendered inside [indiv] and [ft] together, and a track tag was
   met while a client block was active *)
C19_Witness ==
    /\ pc = "render"
    /\ in_indiv_block
    /\ ~in_corp_block
    /\ active_track_block = "[ft]"
    /\ elemIdx >= 3
    /\ \E i \in 1..Len(precedent_text) :
           /\ Words[i] \in Range(logical_elements[elemIdx].content)
           /\ WordRendered(Words[i])


(***************************************************************************)
(* The conditional sections of the built-in precedent: the client          *)
(* alternatives of paragraphs 6 and 18 and the eight track alternatives of *)
(* paragraph 24, each wrapped in its block tags (lines 238-243, 292-295    *)
(* and 318-359; t<n> is the text of file line n).                          *)
(***************************************************************************)
BuiltinConditionals ==
    <<
     <<"[]">>,
     <<"[indiv]", "[6-1]", "t239", "[/6-1]", "[end indiv]">>,
     <<"[corp]", "[6-2]", "t240">>,
     <<"[a]", "t241">>,
     <<"[b]", "t242", "[/6-2]", "[end corp]">>,
     <<"[]">>,
     <<"[]">>,
     <<"[indiv]", "[18-1]", "t293", "[/18-1]", "[end indiv]">>,
     <<"[corp]", "[18-2]", "t294", "[/18-2]", "[end corp]">>,
     <<"[]">>,
     <<"[23]", "t318", "[/23]">>,
     <<"[]">>,
     <<"[all_sc]", "[24-1]", "t320">>,
     <<"[]">>,
     <<"t322">>,
     <<"[bp]", "t323">>,
     <<"[bp]", "t324">>,
     <<"[bp]", "t325">>,
     <<"[bp]", "t326">>,
     <<"[bp]", "t327">>,
     <<"[]">>,
     <<"t329", "[/24-1]", "[end all_sc]">>,
     <<"[all_ft]", "[24-2]", "t330">>,
     <<"[]">>,
     <<"t332", "[/24-2]", "[end all_ft]">>,
     <<"[all_int]", "[24-3]", "t333">>,
     <<"[]">>,
     <<"t335", "[/24-3]", "[end all_int]">>,
     <<"[all_mt]", "[24-4]", "t336">>,
     <<"[]">>,
     <<"t338", "[italics]", "t338", "[end italics]", "t338", "[/24-4]", "[end all_mt]">>,
     <<"[sc]", "[24-5]", "t339">>,
     <<"[]">>,
     <<"t341">>,
     <<"[]">>,
     <<"[bp]", "t343">>,
     <<"[bp]", "t344">>,
     <<"[bp]", "t345">>,
     <<"[bp]", "t346">>,
     <<"[bp]", "t347">>,
     <<"[]">>,
     <<"t349", "[/24-5]", "[end sc]">>,
     <<"[ft]", "[24-6]", "t350">>,
     <<"[]">>,
     <<"t352", "[/24-6]", "[end ft]">>,
     <<"[int]", "[24-7]", "t353">>,
     <<"[]">>,
     <<"t355", "[/24-7]", "[end int]">>,
     <<"[mt]", "[24-8]", "t356">>,
     <<"[]">>,
     <<"t358", "[italics]", "t358", "[end italics]", "t358", "[/24-8]", "[end mt]">>,
     <<"[]">>
    >>

InitBuiltin ==
    /\ pc = "parse"
    /\ \E ct \in client_types, ca \in {"Yes", "No"}, tr \in Range(track_options) :
           app_inputs = BuildAppInputs(ct, ca, tr, DefaultWidgets)
    /\ precedent_text = BuiltinConditionals
    /\ lineIdx = 0
    /\ line_to_process = <<>>
    /\ current_paragraph_builder = <<>>
    /\ logical_elements = <<>>
    /\ elemIdx = 0
    /\ in_indiv_block = FALSE
    /\ in_corp_block = FALSE
    /\ active_track_block = None
    /\ doc = <<>>
    /\ call = <<>>
    /\ ret = <<>>

SpecBuiltin == InitBuiltin /\ [][NextGenerate]_vars

(* the precedent with its block tags taken out: the render loop has no block
   to filter on, so the parser alone decides *)
WithoutBlockTags(lines) ==
    [i \in 1..Len(lines) |-> SelectSeq(lines[i], LAMBDA sym : sym \notin BlockTagLines)]

(* the tag [N] or [/N] of the paragraph number of a versioned tag *)
Unversioned(regex, sym) ==
    CHOOSE plain \in DOMAIN regex : regex[plain] = <<regex[sym][1], None>>

(* the precedent with the version taken out of its paragraph tags: the parser
   keeps every block, so the render loop alone decides *)
WithoutVersions(lines) ==
    [i \in 1..Len(lines) |->
        [j \in 1..Len(lines[i]) |->
            LET sym == lines[i][j]
            IN  IF sym \in DOMAIN para_tag_regex
                THEN Unversioned(para_tag_regex, sym)
                ELSE IF sym \in DOMAIN para_end_tag_regex
                THEN Unversioned(para_end_tag_regex, sym)
                ELSE sym]]

(* the version k of paragraph 24, as the tag [24-k] spells it *)
TrackVersionOf == <<"1", "2", "3", "4", "5", "6", "7", "8">>

(* C20: in every context the parser's decision for version k of paragraph 24
   is the render loop's decision for the k-th track tag, its decisions for
   versions 1 and 2 of paragraphs 6 and 18 are the render loop's for [indiv]
   and [corp], and the letter generated from the built-in conditional sections
   is the one generated when only the parser filters and the one generated
   when only the render loop filters *)
C20_FilteringAgrees ==
    /\ \A k \in 1..Len(track_tags) :
           should_render_paragraph_version("24", TrackVersionOf[k], app_inputs)
               = should_render_current_track_content(track_tags[k], app_inputs)
    /\ \A p_num \in {"6", "18"} :
           /\ should_render_paragraph_version(p_num, "1", app_inputs)
                  = ~ClientBlockSkips(TRUE, FALSE, app_inputs)
           /\ should_render_paragraph_version(p_num, "2", app_inputs)
                  = ~ClientBlockSkips(FALSE, TRUE, app_inputs)
    /\ pc = "done" =>
           /\ doc = GeneratedDocument(WithoutBlockTags(precedent_text), app_inputs)
           /\ doc = GeneratedDocument(WithoutVersions(precedent_text), app_inputs)

C20_Witness ==
    /\ pc = "done"
    /\ app_inputs["client_type"] = "Corporate"
    /\ ~app_inputs["claim_assigned"]
    /\ app_inputs["selected_track"] = "Fast Track"
    /\ WordRendered("t240") /\ WordRendered("t294") /\ WordRendered("t352")
    /\ ~WordRendered("t239") /\ ~WordRendered("t293") /\ ~WordRendered("t332")
    /\ doc = GeneratedDocument(WithoutBlockTags(precedent_text), app_inputs)
    /\ doc = GeneratedDocument(WithoutVersions(precedent_text), app_inputs)


(***************************************************************************)
(* Blank markers.                                                          *)
(***************************************************************************)
IsBlankMarker(i) == Strip(precedent_text[i]) = <<"[]">>

(* the precedent with line i written twice, and with line i left out *)
Doubled(lines, i) == SubSeq(lines, 1, i) \o SubSeq(lines, i, Len(lines))

Removed(lines, i) == SubSeq(lines, 1, i - 1) \o SubSeq(lines, i + 1, Len(lines))

(* d is e but for paragraphs whose space after has become 12pt *)
SameButBreaks(d, e) ==
    /\ Len(d) = Len(e)
    /\ \A n \in 1..Len(d) : d[n] = e[n] \/ d[n] = [e[n] EXCEPT !.space_after = 12]

(* C21: a line [] adds no paragraph, it changes nothing but the space after a
   paragraph that is there without it, and writing it twice gives the same
   document as writing it once *)
C21_BlankMarkerOnlySpaces ==
    pc = "done" =>
        \A i \in 1..Len(precedent_text) :
            IsBlankMarker(i) =>
                /\ ~WordRendered("[]")
                /\ SameButBreaks(doc, GeneratedDocument(Removed(precedent_text, i),
                                                       app_inputs))
                /\ doc = GeneratedDocument(Doubled(precedent_text, i), app_inputs)


(***************************************************************************)
(* Plain text on consecutive lines.                                        *)
(***************************************************************************)
IsPlainLine(i) == precedent_text[i] = <<Words[i]>>

(* C22: two plain-text lines that follow one another end up in one paragraph *)
C22_PlainLinesAccumulate ==
    pc = "done" =>
        \A i \in 1..(Len(precedent_text) - 1) :
            IsPlainLine(i) /\ IsPlainLine(i + 1) =>
                \E n \in 1..Len(doc) :
                    {Words[i], Words[i + 1]} \subseteq Range(ParagraphText(doc[n]))


(***************************************************************************)
(* Indented bullets.                                                       *)
(***************************************************************************)
IndentTemplates ==
    {<<"w">>, <<"[bp]", "w">>, <<"[ind]", "w">>, <<"[ind]", "[bp]", "w">>, <<"[]">>}

InitIndent == InitGenerateWith(IndentTemplates, MaxLines, {"Individual"}, {"Yes"},
                               {"Fast Track"}, {DefaultWidgets.fee_table_content})

SpecIndent == InitIndent /\ [][NextGenerate]_vars

IsIndentedBullet(i) == precedent_text[i] = <<"[ind]", "[bp]", Words[i]>>

(* C23: a line [ind][bp]text becomes a bullet paragraph with the deeper
   indent whose text holds neither tag *)
C23_IndentedBulletRendered ==
    pc = "done" =>
        \A i \in 1..Len(precedent_text) :
            IsIndentedBullet(i) =>
                \E n \in 1..Len(doc) :
                    /\ ParagraphText(doc[n]) = <<Words[i]>>
                    /\ doc[n].style = "ListBullet"
                    /\ doc[n].left_indent = "4cm"


(***************************************************************************)
(* Lines whose text vanishes in add_runs_from_text: the address block of   *)
(* the built-in precedent (lines 214-217) and lines of delimiters.         *)
(***************************************************************************)
AddressTemplates ==
    {<<"w">>, <<"{", "client_address_line2_conditional", "}">>,
     <<"{", "client_postcode", "}">>, <<"[bold]", "[end bold]">>, <<"[bp]">>}

AddressLine2Inputs == {DefaultWidgets.client_address_line2, <<>>}

InitAddress ==
    /\ pc = "parse"
    /\ \E client_address_line2 \in AddressLine2Inputs :
           app_inputs = BuildAppInputs("Individual", "Yes", "Fast Track",
                            [DefaultWidgets EXCEPT
                                 !.client_address_line2 = client_address_line2])
    /\ \E ts \in SeqsUpTo(AddressTemplates, MaxLines) : precedent_text = PrecedentOf(ts)
    /\ lineIdx = 0
    /\ line_to_process = <<>>
    /\ current_paragraph_builder = <<>>
    /\ logical_elements = <<>>
    /\ elemIdx = 0
    /\ in_indiv_block = FALSE
    /\ in_corp_block = FALSE
    /\ active_track_block = None
    /\ doc = <<>>
    /\ call = <<>>
    /\ ret = <<>>

SpecAddress == InitAddress /\ [][NextGenerate]_vars

(* C24: every paragraph of the document has text, unless it is a bullet *)
C24_NoEmptyParagraph ==
    \A n \in 1..Len(doc) :
        ParagraphText(doc[n]) = <<>> => doc[n].style = "ListBullet"


(***************************************************************************)
(* The built-in precedent (lines 210-431 after strip()): one tuple per     *)
(* line, with the tags and placeholders of the line and t<n> for a stretch *)
(* of text of file line n.                                                 *)
(***************************************************************************)
precedent_content ==
    <<
     <<"t210", "{", "our_ref", "}">>,
     <<"t211", "{", "your_ref", "}">>,
     <<"t212", "{", "letter_date", "}">>,
     <<"[]">>,
     <<"{", "client_name_input", "}">>,
     <<"{", "client_address_line1", "}">>,
     <<"{", "client_address_line2_conditional", "}">>,
     <<"{", "client_postcode", "}">>,
     <<"[]">>,
     <<"t219", "{", "client_name_input", "}", "t219">>,
     <<"[]">>,
     <<"[1]", "t221", "[bold]", "t221", "[end]", "t221", "[/1]">>,
     <<"[]">>,
     <<"[2]", "t223", "[/2]">>,
     <<"[]">>,
     <<"[bold]", "t225", "[end]">>,
     <<"[]">>,
     <<"[3]", "t227", "[qu 1]", " ", "[bold]", "t227", "[/bold]", "t227", "[qu 2]", " ",
       "[bold]", "t227", "[end]", "t227", "[/3]">>,
     <<"[]">>,
     <<"[4]", "t229", "[/4]">>,
     <<"[]">>,
     <<"[bold]", "t231", "[end]">>,
     <<"[]">>,
     <<"[5]", "qu3 Explain", " ", "[/5]">>,
     <<"[]">>,
     <<"[bold]", "t235", "[end]">>,
     <<"[]">>,
     <<"[underline]", "t237", "[end]">>,
     <<"[]">>,
     <<"[indiv]", "[6-1]", "t239", "[/6-1]", "[end indiv]">>,
     <<"[corp]", "[6-2]", "t240">>,
     <<"[a]", "t241">>,
     <<"[b]", "t242", "[/6-2]", "[end corp]">>,
     <<"[]">>,
     <<"[7]", "t244">>,
     <<"[]">>,
     <<"[a]", "t246">>,
     <<"[]">>,
     <<"[b]", "t248">>,
     <<"[bp]", "t249">>,
     <<"[bp]", "t250">>,
     <<"[bp]", "t251">>,
     <<"[bp]", "t252">>,
     <<"[bp]", "t253">>,
     <<"[]">>,
     <<"t255", "[/7]">>,
     <<"[]">>,
     <<"[underline]", "t257", "[end]">>,
     <<"[]">>,
     <<"[8]", "t259", "[/8]">>,
     <<"[]">>,
     <<"[bold]", "t261", "[end]">>,
     <<"[]">>,
     <<"[9]", "t263", "{", "person_responsible_name", "}", "t263", "{",
       "person_responsible_title", "}", "t263", "{", "supervisor_name", "}", "t263", "{",
       "supervisor_title", "}", "t263", "[/9]">>,
     <<"[]">>,
     <<"[10]", "t265", "{", "person_responsible_phone", "}", "t265", "{",
       "person_responsible_mobile", "}", "t265", "{", "person_responsible_email", "}",
       "t265", "[/10]">>,
     <<"[]">>,
     <<"[11]", "t267", "{", "assistant_name", "}", "t267", "[/11]">>,
     <<"[]">>,
     <<"[12]", "t269", "{", "supervisor_contact_for_complaints", "}", "t269", "[/12]">>,
     <<"[]">>,
     <<"[13]", "t271", "[/13]">>,
     <<"[]">>,
     <<"[bold]", "t273", "[end]">>,
     <<"[]">>,
     <<"[underline]", "t275", "[end]">>,
     <<"[]">>,
     <<"[14]", "t277", "[/14]">>,
     <<"[]">>,
     <<"[15]", "t279">>,
     <<"[]">>,
     <<"[FEE_TABLE_PLACEHOLDER]">>,
     <<"[]">>,
     <<"t283", "[/15]">>,
     <<"[]">>,
     <<"[underline]", "t285", "[end]">>,
     <<"[]">>,
     <<"[16]", "t287", "[/16]">>,
     <<"[]">>,
     <<"[17]", "t289", "[/17]">>,
     <<"[]">>,
     <<"[underline]", "t291", "[end]">>,
     <<"[]">>,
     <<"[indiv]", "[18-1]", "t293", "[/18-1]", "[end indiv]">>,
     <<"[corp]", "[18-2]", "t294", "[/18-2]", "[end corp]">>,
     <<"[]">>,
     <<"[underline]", "t296", "[end]">>,
     <<"[]">>,
     <<"[19]", "t298", "[/19]">>,
     <<"[]">>,
     <<"[underline]", "t300", "[end]">>,
     <<"[]">>,
     <<"[20]", "t302", "[/20]">>,
     <<"[]">>,
     <<"[21]", "t304", "[/21]">>,
     <<"[]">>,
     <<"[22]", "t306">>,
     <<"[]">>,
     <<"[a]", "t308">>,
     <<"[b]", "t309">>,
     <<"[c]", "t310">>,
     <<"[d]", "t311">>,
     <<"[e]", "t312">>,
     <<"[f]", "t313">>,
     <<"[g]", "t314", "[/22]">>,
     <<"[]">>,
     <<"[underline]", "t316", "[end]">>,
     <<"[]">>,
     <<"[23]", "t318", "[/23]">>,
     <<"[]">>,
     <<"[all_sc]", "[24-1]", "t320">>,
     <<"[]">>,
     <<"t322">>,
     <<"[bp]", "t323">>,
     <<"[bp]", "t324">>,
     <<"[bp]", "t325">>,
     <<"[bp]", "t326">>,
     <<"[bp]", "t327">>,
     <<"[]">>,
     <<"t329", "[/24-1]", "[end all_sc]">>,
     <<"[all_ft]", "[24-2]", "t330">>,
     <<"[]">>,
     <<"t332", "[/24-2]", "[end all_ft]">>,
     <<"[all_int]", "[24-3]", "t333">>,
     <<"[]">>,
     <<"t335", "[/24-3]", "[end all_int]">>,
     <<"[all_mt]", "[24-4]", "t336">>,
     <<"[]">>,
     <<"t338", "[italics]", "t338", "[end italics]", "t338", "[/24-4]", "[end all_mt]">>,
     <<"[sc]", "[24-5]", "t339">>,
     <<"[]">>,
     <<"t341">>,
     <<"[]">>,
     <<"[bp]", "t343">>,
     <<"[bp]", "t344">>,
     <<"[bp]", "t345">>,
     <<"[bp]", "t346">>,
     <<"[bp]", "t347">>,
     <<"[]">>,
     <<"t349", "[/24-5]", "[end sc]">>,
     <<"[ft]", "[24-6]", "t350">>,
     <<"[]">>,
     <<"t352", "[/24-6]", "[end ft]">>,
     <<"[int]", "[24-7]", "t353">>,
     <<"[]">>,
     <<"t355", "[/24-7]", "[end int]">>,
     <<"[mt]", "[24-8]", "t356">>,
     <<"[]">>,
     <<"t358", "[italics]", "t358", "[end italics]", "t358", "[/24-8]", "[end mt]">>,
     <<"[]">>,
     <<"[underline]", "t360", "[end]">>,
     <<"[]">>,
     <<"[25]", "t362", "GBP", " ", "[qu4_]", "t362", "[/25]">>,
     <<"[]">>,
     <<"[26]", "t364", "[/26]">>,
     <<"[]">>,
     <<"[27]", "t366", "[/27]">>,
     <<"[]">>,
     <<"[28]", "t368", "[/28]">>,
     <<"[]">>,
     <<"[29]", "t370", "[/29]">>,
     <<"[]">>,
     <<"[30]", "t372", "[/30]">>,
     <<"[]">>,
     <<"[31]", "t374", "[/31]">>,
     <<"[]">>,
     <<"[32]", "t376", "[/32]">>,
     <<"[]">>,
     <<"[bold]", "t378", "[end]">>,
     <<"[]">>,
     <<"[33]", "t380", "[/33]">>,
     <<"[]">>,
     <<"[bold]", "t382", "[end]">>,
     <<"[]">>,
     <<"[34]", "t384", "{", "bank_name", "}", "t384", "{", "bank_address", "}", "t384">>,
     <<"[]">>,
     <<"[ind]", "t386", "{", "account_name", "}">>,
     <<"[ind]", "t387", "{", "sort_code", "}">>,
     <<"[ind]", "t388", "{", "account_number", "}", "[/34]">>,
     <<"[]">>,
     <<"[35]", "t390", "[/35]">>,
     <<"[]">>,
     <<"[36]", "t392", "[/36]">>,
     <<"[]">>,
     <<"[bold]", "t394", "[end]">>,
     <<"[]">>,
     <<"[37]", "t396", "[/37]">>,
     <<"[]">>,
     <<"[bold]", "t398", "[end]">>,
     <<"[]">>,
     <<"[38]", "t400", "[/38]">>,
     <<"[]">>,
     <<"[39]", "t402", "[/39]">>,
     <<"[]">>,
     <<"[a]", "t404">>,
     <<"[b]", "t405">>,
     <<"[c]", "t406">>,
     <<"[ind]", "[bp]", "t407">>,
     <<"[ind]", "[bp]", "t408">>,
     <<"[ind]", "[bp]", "t409">>,
     <<"[ind]", "[bp]", "t410", "[/39]">>,
     <<"[]">>,
     <<"[40]", "t412", "[/40]">>,
     <<"[]">>,
     <<"[bold]", "t414", "[end]">>,
     <<"[]">>,
     <<"[41]", "t416", "[/41]">>,
     <<"[]">>,
     <<"[42]", "t418", "[/42]">>,
     <<"[]">>,
     <<"[43]", "t420">>,
     <<"[]">>,
     <<"[a]", "t422", "{", "marketing_email", "}", "t422">>,
     <<"[b]", "t423">>,
     <<"[c]", "t424", "{", "marketing_address", "}", "t424", "[/43]">>,
     <<"[]">>,
     <<"t426">>,
     <<"[]">>,
     <<"[]">>,
     <<"[]">>,
     <<"{", "name", "}">>,
     <<"t431">>
    >>

InitLetter ==
    /\ pc = "parse"
    /\ \E ct \in client_types, ca \in {"Yes", "No"}, tr \in Range(track_options) :
           app_inputs = BuildAppInputs(ct, ca, tr, DefaultWidgets)
    /\ precedent_text = precedent_content
    /\ lineIdx = 0
    /\ line_to_process = <<>>
    /\ current_paragraph_builder = <<>>
    /\ logical_elements = <<>>
    /\ elemIdx = 0
    /\ in_indiv_block = FALSE
    /\ in_corp_block = FALSE
    /\ active_track_block = None
    /\ doc = <<>>
    /\ call = <<>>
    /\ ret = <<>>

SpecLetter == InitLetter /\ [][NextGenerate]_vars

(* the first text of the alternatives of paragraphs 6, 18 and 24 *)
AlternativesOf6 == {"t239", "t240"}

AlternativesOf18 == {"t293", "t294"}

AlternativesOf24 == {"t320", "t330", "t333", "t336", "t339", "t350", "t353", "t356"}

(* C25: the letter generated from the built-in precedent shows the paragraph
   numbers 1, 2, ..., 43 in this order, each once, and one alternative each
   of the paragraphs 6, 18 and 24 *)
C25_BuiltinNumbersRun1To43 ==
    pc = "done" =>
        /\ ShownNumbers(doc) = [n \in 1..Len(ParagraphNumbers) |-> n]
        /\ \A alternatives \in {AlternativesOf6, AlternativesOf18, AlternativesOf24} :
               Cardinality({w \in alternatives : WordRendered(w)}) = 1

C25_Witness ==
    /\ pc = "done"
    /\ app_inputs["client_type"] = "Corporate"
    /\ ~app_inputs["claim_assigned"]
    /\ app_inputs["selected_track"] = "Multi Track"
    /\ ShownNumbers(doc) = [n \in 1..Len(ParagraphNumbers) |-> n]
    /\ WordRendered("t240") /\ WordRendered("t294") /\ WordRendered("t356")


(***************************************************************************)
(* The parser's loops on lines that mix start tags, the end tag of the     *)
(* open block and end tags of other blocks.  The script runs one statement *)
(* after the other, so a step of the parser that can be taken is taken.    *)
(***************************************************************************)
MaxParseLines == 3

ParseTemplates ==
    {<<"w">>, <<"[7]", "w">>, <<"w", "[/7]">>, <<"w", "[/2]", "w", "[/7]">>,
     <<"[2]", "w", "[/2]", "[7]", "w">>, <<"[/7]", "[/2]", "[7]">>}

InitParse == InitGenerateWith(ParseTemplates, MaxParseLines, {"Individual"}, {"Yes"},
                              {"Fast Track"}, {DefaultWidgets.fee_table_content})

SpecParse ==
    /\ InitParse
    /\ [][NextGenerate]_vars
    /\ WF_vars(NextLine) /\ WF_vars(WhileStep) /\ WF_vars(ParseEnd)

(* C26: every iteration of "while line_to_process" leaves a strictly shorter
   line_to_process, and preprocess_precedent returns *)
C26_ParserTerminates ==
    /\ [][WhileStep => Len(line_to_process') < Len(line_to_process)]_vars
    /\ <>(pc # "parse")

C26_Witness ==
    /\ pc = "render"
    /\ \E i \in 2..Len(precedent_text) :
           /\ precedent_text[i] = <<Words[i], "[/2]", Words[i], "[/7]">>
           /\ OpenBlockBefore(i) # <<>>
           /\ OpenBlockBefore(i)[1].num = "7"
    /\ \E i \in 1..Len(precedent_text) :
           precedent_text[i] = <<"[/7]", "[/2]", "[7]">>


(***************************************************************************)
(* The generic closing delimiter.                                          *)
(***************************************************************************)
EndSymbols == {"[bold]", "[italics]", "[underline]", "[end]", "Hello"}

SpecEnd == InitRuns(EndSymbols, MaxTokLen, {<<"v">>}, {<<>>}) /\ [][NextRuns]_vars

(* the call was made on a text that ends with "[end]" *)
EndsWithEnd ==
    /\ call # <<>>
    /\ call.first # <<>>
    /\ call.first[Len(call.first)] = "[end]"

(* C27: "[end]" at the end of a text turns off the first of bold, italic,
   underline that the text before it leaves on, leaves the other two as they
   are, and adds no run; with none on it changes nothing *)
C27_EndClosesByPriority ==
    pc = "returned" /\ EndsWithEnd =>
        LET before == RunsResult(Take(call.first, Len(call.first) - 1), app_inputs)
            closed == IF before.is_bold THEN "bold"
                      ELSE IF before.is_italic THEN "italic"
                      ELSE IF before.is_underline THEN "underline"
                      ELSE None
        IN  /\ ret.is_bold = (before.is_bold /\ closed # "bold")
            /\ ret.is_italic = (before.is_italic /\ closed # "italic")
            /\ ret.is_underline = (before.is_underline /\ closed # "underline")
            /\ ret.paragraph.runs = before.paragraph.runs

C27_Witness ==
    /\ pc = "returned"
    /\ call.first = <<"[bold]", "[italics]", "Hello", "[end]">>
    /\ ~ret.is_bold
    /\ ret.is_italic
    /\ Len(ret.paragraph.runs) = 1

====
